---- MODULE Spec2Model ----
(***************************************************************************)
(* The entry store of the journaling application (the useEntries hook),   *)
(* its persisted keys in localStorage, the validation predicates and the  *)
(* Archive page's file import, as a state machine.                        *)
(*                                                                         *)
(* One store instance is modelled: its three React state collections, the *)
(* three localStorage keys they are written to, and the last call made    *)
(* on the store (operation, the error it ended with, its return value,    *)
(* whether a record it names was held before the call).                   *)
(***************************************************************************)
EXTENDS Integers, Sequences, FiniteSets, TLC

VARIABLES
  storage,             \* localStorage: key -> stored item
  entries,             \* useState<Entry[]>
  monthlyReflections,  \* useState<MonthlyReflection[]>
  yearlyReviews,       \* useState<YearlyReview[]>
  isLoading,           \* useState(true); FALSE once the mount effects ran
  call,                \* the last call on the store
  writeFailures,       \* how many calls ended in a write that threw
  evaluated,           \* the last evaluation of a function that changes no state
  component            \* the component mounted over the store: its own state

vars == <<storage, entries, monthlyReflections, yearlyReviews, isLoading, call,
          writeFailures, evaluated, component>>

-----------------------------------------------------------------------------
(* Bounds of the model *)

MaxEntries == 2        \* longest entries collection explored
MaxReflections == 2    \* longest monthlyReflections collection explored
MaxReviews == 2        \* longest yearlyReviews collection explored
MaxWriteFailures == 1  \* most calls whose write throws in one run
MaxStreakEntries == 4  \* longest entries collection the streaks are computed over
MaxMoments == 2        \* longest collections the top moments are derived from
MaxPromptRecords == 2  \* longest collections the review prompts are derived from

-----------------------------------------------------------------------------
(* JavaScript values *)

\* The value `undefined` (a missing field reads as undefined).
Undefined == "<undefined>"

\* Number(...) of a string that is no number.
NaN == -1

\* A value that is a number (7) where a string is expected.
NumberValue == "<number 7>"

\* null, or any value that is no object, where an object is expected.
Null == [null |-> TRUE]

\* typeof x === "string", for a field that holds a string, a number or undefined.
IsString(x) == x \notin {Undefined, NumberValue}

\* x.trim() over the strings of the model: "  " is the one made of white space.
Trim(x) == IF x = "  " THEN "" ELSE x

\* `${x}` in a template literal.
Str(x) ==
  IF x = Undefined THEN "undefined" ELSE IF x = NumberValue THEN "7" ELSE x

\* !x for a field that holds a string, a number or undefined.
Falsy(x) == x = Undefined \/ x = ""

\* typeof x === "string" && x.trim() !== "".
NonBlankString(x) == IsString(x) /\ Trim(x) # ""

Range(s) == {s[i] : i \in 1..Len(s)}

RECURSIVE Filter(_, _)
\* Array.prototype.filter, with the kept elements given as a set.
Filter(s, keep) ==
  IF s = <<>> THEN <<>>
  ELSE IF Head(s) \in keep THEN <<Head(s)>> \o Filter(Tail(s), keep)
       ELSE Filter(Tail(s), keep)

-----------------------------------------------------------------------------
(* Storage keys and the data version *)

STORAGE_KEY == "three-things-entries"
MONTHLY_REFLECTIONS_KEY == "three-things-monthly-reflections"
YEARLY_REVIEWS_KEY == "three-things-yearly-reviews"

\* The major component of DATA_VERSION = "1.1.0".
CurrentMajor == 1

-----------------------------------------------------------------------------
(* localStorage items.  An item is absent (getItem returns null), a text   *)
(* that JSON.parse rejects, or the JSON text of an array.                  *)

NullItem == [kind |-> "null", val |-> <<>>]
CorruptItem == [kind |-> "corrupt", val |-> <<>>]

\* JSON.stringify of an array of records: the text is represented by the
\* array it denotes.  A field holding undefined is omitted from the text, and
\* an omitted field reads as undefined after parsing, so both are Undefined.
JSONStringify(arr) == [kind |-> "json", val |-> arr]

\* JSON.parse succeeds on the item.
Parses(item) == item.kind = "json"

\* JSON.parse of an item that parses.
JSONParse(item) == item.val

\* `if (stored)`: a null item is falsy.
Stored(item) == item.kind # "null"

-----------------------------------------------------------------------------
(* Dates, times and entries *)

Dates == {"2025-01-05", "2025-02-01"}

\* new Date(dateStr).getTime() in days, for the dates of the model.
DateTime(d) ==
  CASE d = "2024-12-31" -> 20088
    [] d = "2025-01-01" -> 20089
    [] d = "2025-01-05" -> 20093
    [] d = "2025-01-15" -> 20103
    [] d = "2025-02-01" -> 20120
    [] d = "2025-03-08" -> 20155
    [] d = "2025-03-09" -> 20156
    [] d = "2025-03-10" -> 20157
    [] d = "2025-03-11" -> 20158
    [] OTHER -> NaN

\* /^\d{4}-\d{2}-\d{2}$/.test(s) over the strings of the model.
DateRegexTest(s) == s \in Dates \cup {"2025-13-45"}

\* isValid(parseISO(s)) over the strings of the model.
IsValidDate(s) == s \in Dates

\* new Date().toTimeString().slice(0, 5): the current time of day.
Nows == {"09:30"}

\* /^\d{2}:\d{2}$/.test(s) over the strings of the model.
TimeRegexTest(s) == s \in {"08:00"} \cup Nows

Item(text, favorite) == [text |-> text, favorite |-> favorite]

ItemsPlain == <<Item("A", FALSE), Item("B", FALSE), Item("C", FALSE)>>
ItemsStar == <<Item("A", TRUE), Item("B", FALSE), Item("C", FALSE)>>

Entry(id, date, time, items) ==
  [id |-> id, date |-> date, time |-> time, items |-> items]

\* What the entry form and the edit form pass to the store: Omit<Entry, "id">.
EntryInputs ==
  {[date |-> "2025-01-05", time |-> "08:00", items |-> ItemsPlain],
   [date |-> "2025-01-05", time |-> "08:00", items |-> ItemsStar],
   [date |-> "2025-02-01", time |-> "08:00", items |-> ItemsStar]}

\* An entry written by an old version of the application: it has no id.
LegacyEntry == Entry(Undefined, "2025-01-05", "08:00", ItemsPlain)

\* A damaged record: only two items.
ShortEntry == Entry("2025-02-01-08:00", "2025-02-01", "08:00", <<Item("A", FALSE), Item("B", FALSE)>>)

-----------------------------------------------------------------------------
(* Validation (utils/validation) *)

\* A value of `items` that is no array (a string, a missing field).
NotAnArray == <<[text |-> "<not an array>", favorite |-> FALSE]>>

\* Array.isArray(x) for a value of `items`.
IsArray(x) == x # NotAnArray

\* isValidEntryItem: an object whose text is a string.
isValidEntryItem(item) == item # Null /\ IsString(item.text)

\* validateEntry: the checks in the order of the code; message is "" when
\* the entry is valid.
validateEntry(e) ==
  IF e = Null
    THEN [valid |-> FALSE, message |-> "Entry is not an object"]
  ELSE IF ~NonBlankString(e.id)
    THEN [valid |-> FALSE, message |-> "Entry missing or invalid 'id' field"]
  ELSE IF ~NonBlankString(e.date)
    THEN [valid |-> FALSE, message |-> "Entry missing or invalid 'date' field"]
  ELSE IF ~DateRegexTest(e.date)
    THEN [valid |-> FALSE, message |-> "Entry has invalid date format"]
  ELSE IF ~IsValidDate(e.date)
    THEN [valid |-> FALSE, message |-> "Entry has invalid date value"]
  ELSE IF ~NonBlankString(e.time)
    THEN [valid |-> FALSE, message |-> "Entry missing or invalid 'time' field"]
  ELSE IF ~TimeRegexTest(e.time)
    THEN [valid |-> FALSE, message |-> "Entry has invalid time format"]
  ELSE IF ~IsArray(e.items) \/ Len(e.items) # 3
    THEN [valid |-> FALSE, message |-> "Entry must have exactly 3 items"]
  ELSE IF \E i \in 1..Len(e.items) : ~isValidEntryItem(e.items[i])
    THEN [valid |-> FALSE, message |-> "Entry item is invalid"]
  ELSE [valid |-> TRUE, message |-> ""]

\* Readings of `${Date.now()}-${Math.random()}`, one per record of a batch.
Draws ==
  {<<"1741000000000-0.25", "1741000000001-0.5">>,
   <<"1741000000000-0.75", "1741000000001-0.5">>}

\* repairEntry, the items: pad with empty items up to three, cut after three.
repairEntry_items(items) ==
  LET given == IF IsArray(items) THEN items ELSE <<>>
  IN  IF Len(given) < 3
        THEN given \o [i \in 1..(3 - Len(given)) |-> [text |-> "", favorite |-> FALSE]]
        ELSE SubSeq(given, 1, 3)

\* repairEntry, each item: { text: "" } for what is no object, else the text
\* when it is a string and favorite === true.
repairEntry_fixedItems(items) ==
  [i \in 1..Len(items) |->
     IF items[i] = Null
       THEN [text |-> "", favorite |-> FALSE]
       ELSE [text |-> IF IsString(items[i].text) THEN items[i].text ELSE "",
             favorite |-> items[i].favorite = TRUE]]

\* Variant of repairEntry that derives the id anew whatever id the entry has.
repairEntry_alwaysNewId(entry, draw, now) ==
  IF entry = Null THEN Null
  ELSE IF Falsy(entry.date) \/ ~IsString(entry.date) THEN Null
  ELSE
    LET id == IF ~Falsy(entry.date) /\ ~Falsy(entry.time)
                THEN Str(entry.date) \o "-" \o Str(entry.time)
                ELSE "entry-" \o draw
        time == IF Falsy(entry.time) \/ ~IsString(entry.time) THEN now ELSE entry.time
        fixedItems == repairEntry_fixedItems(repairEntry_items(entry.items))
    IN  IF \A i \in 1..Len(fixedItems) : Trim(fixedItems[i].text) = ""
          THEN Null
          ELSE [id |-> id, date |-> entry.date, time |-> time, items |-> fixedItems]

\* repairEntry: the repaired entry, or null when the entry cannot be repaired.
\* Only id, date, time and items are carried over.
repairEntry(entry, draw, now) ==
  IF entry = Null THEN Null
  ELSE IF Falsy(entry.date) \/ ~IsString(entry.date) THEN Null
  ELSE
    LET id == IF Falsy(entry.id) \/ ~IsString(entry.id)
                THEN IF ~Falsy(entry.date) /\ ~Falsy(entry.time)
                       THEN Str(entry.date) \o "-" \o Str(entry.time)
                       ELSE "entry-" \o draw
                ELSE entry.id
        time == IF Falsy(entry.time) \/ ~IsString(entry.time) THEN now ELSE entry.time
        fixedItems == repairEntry_fixedItems(repairEntry_items(entry.items))
    IN  IF \A i \in 1..Len(fixedItems) : Trim(fixedItems[i].text) = ""
          THEN Null
          ELSE [id |-> id, date |-> entry.date, time |-> time, items |-> fixedItems]

\* An entry of the errors array (its data field, the record itself, is left out).
ValidationError(index, message, note) ==
  [type |-> "invalid_entry",
   message |-> "Entry " \o ToString(index) \o ": " \o message \o " (" \o note \o ")"]

\* Variant of validateEntries_forEach that takes a repaired entry as it is.
validateEntries_noSecondCheck(entry, index, draw, now) ==
  LET result == validateEntry(entry)
      repaired == repairEntry(entry, draw, now)
  IN  IF result.valid
        THEN [valid |-> <<entry>>, errors |-> <<>>]
      ELSE IF repaired # Null
        THEN [valid |-> <<repaired>>,
              errors |-> <<ValidationError(index, result.message, "repaired automatically")>>]
      ELSE [valid |-> <<>>,
            errors |-> <<ValidationError(index, result.message, "could not be repaired")>>]

\* Variant of validateEntries_forEach that reports no repair.
validateEntries_silentRepair(entry, index, draw, now) ==
  LET result == validateEntry(entry)
      repaired == repairEntry(entry, draw, now)
  IN  IF result.valid
        THEN [valid |-> <<entry>>, errors |-> <<>>]
      ELSE IF repaired # Null /\ validateEntry(repaired).valid
        THEN [valid |-> <<repaired>>, errors |-> <<>>]
      ELSE [valid |-> <<>>,
            errors |-> <<ValidationError(index, result.message, "could not be repaired")>>]

\* validateEntries, the body of its forEach: what one record adds to `valid`
\* and to `errors`.
validateEntries_forEach(entry, index, draw, now) ==
  LET result == validateEntry(entry)
      repaired == repairEntry(entry, draw, now)
  IN  IF result.valid
        THEN [valid |-> <<entry>>, errors |-> <<>>]
      ELSE IF repaired # Null /\ validateEntry(repaired).valid
        THEN [valid |-> <<repaired>>,
              errors |-> <<ValidationError(index, result.message, "repaired automatically")>>]
      ELSE [valid |-> <<>>,
            errors |-> <<ValidationError(index, result.message, "could not be repaired")>>]

RECURSIVE validateEntries_upTo(_, _, _, _)
\* validateEntries over the first n records.
validateEntries_upTo(rawEntries, n, draws, now) ==
  IF n = 0 THEN [valid |-> <<>>, errors |-> <<>>]
  ELSE LET sofar == validateEntries_upTo(rawEntries, n - 1, draws, now)
           each == validateEntries_forEach(rawEntries[n], n, draws[n], now)
       IN  [valid |-> sofar.valid \o each.valid, errors |-> sofar.errors \o each.errors]

\* validateEntries: the valid and the repaired records, and the errors.
validateEntries(rawEntries, draws, now) ==
  validateEntries_upTo(rawEntries, Len(rawEntries), draws, now)

-----------------------------------------------------------------------------
(* The entries collection: the pure part of each operation *)

\* The key `${entry.date}-${entry.time}`, also the id given to a new entry.
dateTimeKey(e) == Str(e.date) \o "-" \o Str(e.time)

\* Load effect: entry.id || `${entry.date}-${entry.time}`.
entriesWithIds(parsedEntries) ==
  [i \in 1..Len(parsedEntries) |->
     [parsedEntries[i] EXCEPT
        !.id = IF Falsy(@) THEN dateTimeKey(parsedEntries[i]) ELSE @]]

\* saveEntry: { ...entry, id: `${entry.date}-${entry.time}` }.
newEntry(entry) == Entry(dateTimeKey(entry), entry.date, entry.time, entry.items)

\* Variant of saveEntry_updatedEntries that puts the new entry at the end.
saveEntry_appends(es, entry) == es \o <<newEntry(entry)>>

\* saveEntry: [newEntry, ...entries].
saveEntry_updatedEntries(es, entry) == <<newEntry(entry)>> \o es

\* hasTodayEntry: entries.some(entry => entry.date === today).
hasTodayEntry(es, today) == \E e \in Range(es) : e.date = today

\* Variant of updateEntry_updatedEntries that derives the id of the replaced
\* entry from its new date and time.
updateEntry_rederivesId(es, id, updatedEntry) ==
  [i \in 1..Len(es) |-> IF es[i].id = id THEN newEntry(updatedEntry) ELSE es[i]]

\* updateEntry: entries.map(e => e.id === id ? { ...updatedEntry, id } : e).
updateEntry_updatedEntries(es, id, updatedEntry) ==
  [i \in 1..Len(es) |->
     IF es[i].id = id
       THEN Entry(id, updatedEntry.date, updatedEntry.time, updatedEntry.items)
       ELSE es[i]]

\* deleteEntry: entries.filter(e => e.id !== id).
deleteEntry_updatedEntries(es, id) == Filter(es, {e \in Range(es) : e.id # id})

\* Variant of importEntries_newEntries that tells held entries by their id.
importEntries_newEntries_byId(es, importedEntries) ==
  LET existingIds == {e.id : e \in Range(es)}
  IN  Filter(importedEntries,
             {e \in Range(importedEntries) : e.id \notin existingIds})

\* importEntries: the imported entries whose date-time key no existing entry has.
importEntries_newEntries(es, importedEntries) ==
  LET existingKeys == {dateTimeKey(e) : e \in Range(es)}
  IN  Filter(importedEntries,
             {e \in Range(importedEntries) : dateTimeKey(e) \notin existingKeys})

\* The comparator of the import's sort: new Date(b.date) - new Date(a.date);
\* a NaN result counts as 0.
compareDateDesc(a, b) ==
  IF DateTime(a.date) = NaN \/ DateTime(b.date) = NaN THEN 0
  ELSE DateTime(b.date) - DateTime(a.date)

RECURSIVE insertSorted(_, _)
\* e goes behind every element that does not sort after it (a stable sort).
insertSorted(sorted, e) ==
  IF sorted = <<>> THEN <<e>>
  ELSE IF compareDateDesc(Head(sorted), e) <= 0
         THEN <<Head(sorted)>> \o insertSorted(Tail(sorted), e)
         ELSE <<e>> \o sorted

RECURSIVE sortByDateDesc(_)
\* Array.prototype.sort with compareDateDesc.
sortByDateDesc(s) ==
  IF s = <<>> THEN <<>>
  ELSE insertSorted(sortByDateDesc(SubSeq(s, 1, Len(s) - 1)), s[Len(s)])

\* importEntries: [...entries, ...newEntries].sort(by date, newest first).
combinedEntries(es, importedEntries) ==
  sortByDateDesc(es \o importEntries_newEntries(es, importedEntries))

-----------------------------------------------------------------------------
(* Streaks (pages/Streak, getYearSummary) *)

\* new Date(): the local date and whether the time of day is past 00:00:00.000.
Clocks ==
  {[date |-> d, pastMidnight |-> t] : d \in {"2025-03-10", "2025-03-11"}, t \in BOOLEAN}

\* parseISO(date).getTime() in hours: local midnight of the date.
parseISO_getTime(date, zone) ==
  24 * DateTime(date)
    - (IF zone = "America/New_York" /\ DateTime(date) > DateTime("2025-03-09") THEN 1 ELSE 0)

\* differenceInDays(subDays(today, i), parseISO(date)): the full days between
\* local midnight of the date and the current time of day i days ago, rounded
\* towards zero.
differenceInDays(today, i, date) ==
  LET calendarDays == (DateTime(today.date) - i) - DateTime(date)
  IN  IF calendarDays >= 0 THEN calendarDays
      ELSE IF today.pastMidnight THEN calendarDays + 1
      ELSE calendarDays

\* differenceInCalendarDays(parseISO(a), parseISO(b)).
differenceInCalendarDays(a, b) == DateTime(a) - DateTime(b)

RECURSIVE calculateStreak_from(_, _, _)
\* calculateStreak, its loop from index i (counted from 0) on.
calculateStreak_from(sortedEntries, i, today) ==
  IF i >= Len(sortedEntries) THEN 0
  ELSE IF differenceInDays(today, i, sortedEntries[i + 1].date) = 0
         THEN 1 + calculateStreak_from(sortedEntries, i + 1, today)
         ELSE 0

\* calculateStreak: the entries newest first, the i-th of them expected i
\* days before today.
calculateStreak(es, today) ==
  IF Len(es) = 0 THEN 0 ELSE calculateStreak_from(sortByDateDesc(es), 0, today)

\* [...entries].sort(by date, oldest first).  Entries of one date come in
\* the reverse of the order the code leaves them in; the loops below read
\* the dates only.
sortByDateAsc(s) ==
  LET newestFirst == sortByDateDesc(s)
  IN  [i \in 1..Len(s) |-> newestFirst[Len(s) + 1 - i]]

RECURSIVE calculateLongestStreak_loop(_, _, _, _)
\* calculateLongestStreak, its loop from index i (counted from 1) on.
calculateLongestStreak_loop(sortedEntries, i, currentStreak, maxStreak) ==
  IF i > Len(sortedEntries) THEN maxStreak
  ELSE IF differenceInCalendarDays(sortedEntries[i].date, sortedEntries[i - 1].date) = 1
         THEN calculateLongestStreak_loop(
                sortedEntries, i + 1, currentStreak + 1,
                IF currentStreak + 1 > maxStreak THEN currentStreak + 1 ELSE maxStreak)
         ELSE calculateLongestStreak_loop(sortedEntries, i + 1, 1, maxStreak)

\* calculateLongestStreak: pairs of neighbours among the entries oldest first.
calculateLongestStreak(es) ==
  IF Len(es) = 0 THEN 0 ELSE calculateLongestStreak_loop(sortByDateAsc(es), 2, 1, 1)

\* format(parseISO(date), "yyyy") for the dates of the model.
formatYear(date) == IF date = "2024-12-31" THEN "2024" ELSE "2025"

\* getYearEntries: the entries of the year.
getYearEntries(es, year) ==
  Filter(es, {e \in Range(es) : formatYear(e.date) = year})

RECURSIVE sortDates(_)
\* Array.from(uniqueDays).sort(): the dates as strings in ascending order,
\* which for yyyy-MM-dd strings is the order of the days.
sortDates(dates) ==
  IF dates = {} THEN <<>>
  ELSE LET first == CHOOSE d \in dates : \A x \in dates : DateTime(d) <= DateTime(x)
       IN  <<first>> \o sortDates(dates \ {first})

RECURSIVE getYearSummary_streakLoop(_, _, _, _, _)
\* getYearSummary, the forEach over sortedDates from index i on: the streak
\* goes on when the two local midnights are exactly 24 hours apart.
getYearSummary_streakLoop(sortedDates, i, currentStreak, longestStreak, zone) ==
  IF i > Len(sortedDates) THEN longestStreak
  ELSE LET current ==
             IF i > 1 /\ parseISO_getTime(sortedDates[i], zone)
                           - parseISO_getTime(sortedDates[i - 1], zone) = 24
               THEN currentStreak + 1
               ELSE 1
       IN  getYearSummary_streakLoop(
             sortedDates, i + 1, current,
             IF current > longestStreak THEN current ELSE longestStreak, zone)

\* getYearSummary(year).longestStreak.
getYearSummary_longestStreak(es, year, zone) ==
  LET uniqueDays == {e.date : e \in Range(getYearEntries(es, year))}
  IN  getYearSummary_streakLoop(sortDates(uniqueDays), 1, 0, 0, zone)

-----------------------------------------------------------------------------
(* Top moments (getYearSummary, components/MonthlyReviewCard) *)

\* The texts before and after the last "-" of the keys of the model; no tail
\* holds a "-".
KeyHeads ==
  {"2025-01-05-08:00", "2025-02-01-08:00", "2025-03-08-08:00", "2024-12-31-08:00",
   "gone-08:00"}
KeyTails == {"0", "1", "2", "3", "2nd", "two"}

\* const key = `${entryId}-${itemIndex}` of the monthly review.
favoriteKey(entryId, itemIndex) == entryId \o "-" \o ToString(itemIndex)

\* key.lastIndexOf("-") !== -1.
lastIndexOf_found(key) == \E h \in KeyHeads, t \in KeyTails : key = h \o "-" \o t

\* key.substring(0, lastDashIndex).
substring_head(key) ==
  CHOOSE h \in KeyHeads : \E t \in KeyTails : key = h \o "-" \o t

\* key.substring(lastDashIndex + 1).
substring_tail(key) ==
  CHOOSE t \in KeyTails : \E h \in KeyHeads : key = h \o "-" \o t

\* parseInt(s): the leading digits of s as a number, NaN when there is none.
parseInt(s) ==
  CASE s = "0" -> 0
    [] s = "1" -> 1
    [] s = "2" -> 2
    [] s = "3" -> 3
    [] s = "2nd" -> 2
    [] OTHER -> NaN

isNaN(x) == x = NaN

\* entries.find((e) => e.id === entryId) finds an entry.
find_found(es, entryId) == \E i \in 1..Len(es) : es[i].id = entryId

\* entries.find((e) => e.id === entryId): the first entry of that id.
find(es, entryId) ==
  es[CHOOSE i \in 1..Len(es) :
       es[i].id = entryId /\ \A j \in 1..(i - 1) : es[j].id # entryId]

\* items[itemIndex] is an item: JavaScript counts from 0.
hasItem(items, itemIndex) == (itemIndex + 1) \in 1..Len(items)

\* month.startsWith(year) for yyyy-MM months.
startsWith(month, year) == \E mm \in {"01", "02", "03", "12"} : month = year \o "-" \o mm

RECURSIVE getYearStarredItems_items(_, _, _)
\* getYearStarredItems, entry.items.forEach from index i on.
getYearStarredItems_items(entry, i, starredItems) ==
  IF i > Len(entry.items) THEN starredItems
  ELSE getYearStarredItems_items(
         entry, i + 1,
         IF entry.items[i].favorite
           THEN Append(starredItems,
                       [entryId |-> entry.id, itemIndex |-> i - 1,
                        text |-> entry.items[i].text, date |-> entry.date])
           ELSE starredItems)

RECURSIVE getYearStarredItems_entries(_, _, _)
\* getYearStarredItems, yearEntries.forEach from index n on.
getYearStarredItems_entries(yearEntries, n, starredItems) ==
  IF n > Len(yearEntries) THEN starredItems
  ELSE getYearStarredItems_entries(
         yearEntries, n + 1, getYearStarredItems_items(yearEntries[n], 1, starredItems))

getYearStarredItems(es, year) ==
  getYearStarredItems_entries(getYearEntries(es, year), 1, <<>>)

\* getMonthlyFavoritesForYear, what one key of a reflection pushes.
getMonthlyFavoritesForYear_key(es, key, month) ==
  IF ~lastIndexOf_found(key) THEN <<>>
  ELSE LET entryId == substring_head(key)
           itemIndex == parseInt(substring_tail(key))
       IN  IF isNaN(itemIndex) THEN <<>>
           ELSE IF find_found(es, entryId) /\ hasItem(find(es, entryId).items, itemIndex)
             THEN <<[entryId |-> entryId, itemIndex |-> itemIndex,
                     text |-> find(es, entryId).items[itemIndex + 1].text,
                     date |-> find(es, entryId).date, month |-> month]>>
             ELSE <<>>

RECURSIVE getMonthlyFavoritesForYear_keys(_, _, _, _)
\* getMonthlyFavoritesForYear, reflection.selectedFavorites.forEach from index k on.
getMonthlyFavoritesForYear_keys(es, reflection, k, favorites) ==
  IF k > Len(reflection.selectedFavorites) THEN favorites
  ELSE getMonthlyFavoritesForYear_keys(
         es, reflection, k + 1,
         favorites \o getMonthlyFavoritesForYear_key(
                        es, reflection.selectedFavorites[k], reflection.month))

RECURSIVE getMonthlyFavoritesForYear_reflections(_, _, _, _)
\* getMonthlyFavoritesForYear, the forEach over the reflections of the year.
getMonthlyFavoritesForYear_reflections(es, rs, n, favorites) ==
  IF n > Len(rs) THEN favorites
  ELSE getMonthlyFavoritesForYear_reflections(
         es, rs, n + 1, getMonthlyFavoritesForYear_keys(es, rs[n], 1, favorites))

getMonthlyFavoritesForYear(es, rs, year) ==
  getMonthlyFavoritesForYear_reflections(
    es, Filter(rs, {r \in Range(rs) : startsWith(r.month, year)}), 1, <<>>)

\* getYearSummary(year).topMoments.
getYearSummary_topMoments(es, rs, year) ==
  LET starredItems == getYearStarredItems(es, year)
      monthlyFavorites == getMonthlyFavoritesForYear(es, rs, year)
  IN  IF Len(monthlyFavorites) > 0 THEN monthlyFavorites ELSE starredItems

\* MonthlyReviewCard, what one key of the reflection maps to: a sequence of
\* no element stands for the null that filter(Boolean) drops.
favoriteItems_key(es, key) ==
  IF ~lastIndexOf_found(key) THEN <<>>
  ELSE LET entryId == substring_head(key)
           itemIndex == parseInt(substring_tail(key))
       IN  IF isNaN(itemIndex) THEN <<>>
           ELSE IF find_found(es, entryId) /\ hasItem(find(es, entryId).items, itemIndex)
             THEN <<[text |-> find(es, entryId).items[itemIndex + 1].text,
                     date |-> find(es, entryId).date]>>
             ELSE <<>>

RECURSIVE favoriteItems_from(_, _, _)
favoriteItems_from(es, selectedFavorites, k) ==
  IF k > Len(selectedFavorites) THEN <<>>
  ELSE favoriteItems_key(es, selectedFavorites[k])
         \o favoriteItems_from(es, selectedFavorites, k + 1)

\* MonthlyReviewCard: favoriteItems of a reflection.
favoriteItems(es, reflection) == favoriteItems_from(es, reflection.selectedFavorites, 1)

-----------------------------------------------------------------------------
(* Review prompts (shouldShowYearlyReviewPrompt, getMonthsNeedingReview,
   components/EntryInput) *)

\* A yyyy-MM-dd date of the model split into its three fields.
DateFields(date) ==
  CHOOSE f \in [yyyy : {"2024", "2025"}, MM : {"01", "02", "03", "12"},
                dd : {"01", "05", "08", "09", "10", "11", "15", "31"}] :
    date = f.yyyy \o "-" \o f.MM \o "-" \o f.dd

\* format(date, "yyyy-MM").
formatMonth(date) == DateFields(date).yyyy \o "-" \o DateFields(date).MM

\* The place of a yyyy-MM string in string order.
MonthRank(month) ==
  CASE month = "2023-12" -> 0
    [] month = "2024-12" -> 12
    [] month = "2025-01" -> 13
    [] month = "2025-02" -> 14
    [] month = "2025-03" -> 15

\* String(today.getFullYear() - 1).
previousYear(today) == IF DateFields(today).yyyy = "2025" THEN "2024" ELSE "2023"

\* shouldShowYearlyReviewPrompt.
shouldShowYearlyReviewPrompt(es, ys, today) ==
  LET isJanFirst == DateFields(today).MM = "01" /\ DateFields(today).dd = "01"
      hasReview == \E r \in Range(ys) : r.year = previousYear(today)
      hasEntries == Len(getYearEntries(es, previousYear(today))) > 0
  IN  IF ~isJanFirst THEN FALSE ELSE ~hasReview /\ hasEntries

\* EntryInput, checkYearlyPrompt: what it sets showYearlyReviewBanner to.
\* reviewVisitedDate is the stored date of a visit of the year review, or
\* Undefined.  The dismissal of the December prompt is read and not used.
checkYearlyPrompt(es, ys, today, dismissedYearBanner, reviewVisitedDate) ==
  LET shouldShow == shouldShowYearlyReviewPrompt(es, ys, today)
      visitedYesterday ==
        reviewVisitedDate # Undefined /\ DateTime(reviewVisitedDate) < DateTime(today)
  IN  IF visitedYesterday THEN FALSE
      ELSE IF shouldShow
        THEN dismissedYearBanner # previousYear(today) /\ ~visitedYesterday
        ELSE FALSE

RECURSIVE sortMonthsDesc(_)
\* monthsNeedingReview.sort((a, b) => b.localeCompare(a)).
sortMonthsDesc(months) ==
  IF months = {} THEN <<>>
  ELSE LET newest == CHOOSE m \in months : \A x \in months : MonthRank(x) <= MonthRank(m)
       IN  <<newest>> \o sortMonthsDesc(months \ {newest})

\* Variant of getMonthsNeedingReview that skips the months after the current
\* month only.
getMonthsNeedingReview_throughCurrentMonth(es, rs, today) ==
  LET currentMonth == formatMonth(today)
      monthsWithEntries == {formatMonth(e.date) : e \in Range(es)}
  IN  sortMonthsDesc({month \in monthsWithEntries :
                        /\ ~(MonthRank(month) > MonthRank(currentMonth))
                        /\ ~\E r \in Range(rs) : r.month = month})

\* getMonthsNeedingReview: the months of the entries, as a Set; those at or
\* after the current month are passed over, as are those with a reflection.
getMonthsNeedingReview(es, rs, today) ==
  LET currentMonth == formatMonth(today)
      monthsWithEntries == {formatMonth(e.date) : e \in Range(es)}
  IN  sortMonthsDesc({month \in monthsWithEntries :
                        /\ ~(MonthRank(month) >= MonthRank(currentMonth))
                        /\ ~\E r \in Range(rs) : r.month = month})

-----------------------------------------------------------------------------
(* Monthly reflections and yearly reviews *)

\* Readings of the clock, Date.now() and new Date().toISOString(), at the
\* calls of a run: later than the createdAt of the records found in storage.
Clock ==
  {[now |-> "1741000000000", iso |-> "2025-03-03T11:06:40.000Z"]}

MonthlyReflection(id, month, selectedFavorites, reflectionText, createdAt) ==
  [id |-> id, month |-> month, selectedFavorites |-> selectedFavorites,
   reflectionText |-> reflectionText, createdAt |-> createdAt]

YearlyReview(id, year, reflectionText, createdAt) ==
  [id |-> id, year |-> year, reflectionText |-> reflectionText,
   createdAt |-> createdAt]

\* Omit<MonthlyReflection, "id" | "createdAt">.
ReflectionInputs ==
  {[month |-> "2025-01", selectedFavorites |-> <<>>, reflectionText |-> ""],
   [month |-> "2025-01", selectedFavorites |-> <<"2025-01-05-08:00-0">>,
    reflectionText |-> "a good month"],
   [month |-> "2025-02", selectedFavorites |-> <<>>, reflectionText |-> ""]}

\* Omit<YearlyReview, "id" | "createdAt">.
ReviewInputs ==
  {[year |-> "2024", reflectionText |-> ""],
   [year |-> "2024", reflectionText |-> "a good year"],
   [year |-> "2025", reflectionText |-> ""]}

\* findIndex: the first index whose element is in hits, 0 when there is none
\* (the code's -1).
FindIndex(s, hits) ==
  IF \E i \in 1..Len(s) : s[i] \in hits
    THEN CHOOSE i \in 1..Len(s) : s[i] \in hits /\ \A j \in 1..(i - 1) : s[j] \notin hits
    ELSE 0

\* saveMonthlyReflection: the record built from the argument and the clock.
newReflection(reflection, clock) ==
  MonthlyReflection("monthly-" \o reflection.month \o "-" \o clock.now,
                    reflection.month, reflection.selectedFavorites,
                    reflection.reflectionText, clock.iso)

\* Variant of saveMonthlyReflection_updatedReflections that always appends.
saveMonthlyReflection_alwaysAppends(rs, reflection, clock) ==
  rs \o <<newReflection(reflection, clock)>>

\* Variant of saveMonthlyReflection_updatedReflections that overwrites the
\* month's record with the new record as built, its id and createdAt included.
saveMonthlyReflection_freshRecord(rs, reflection, clock) ==
  LET existingIndex == FindIndex(rs, {r \in Range(rs) : r.month = reflection.month})
  IN  IF existingIndex >= 1
        THEN [rs EXCEPT ![existingIndex] = newReflection(reflection, clock)]
        ELSE rs \o <<newReflection(reflection, clock)>>

\* saveMonthlyReflection: overwrite the month's record in place, keeping its id
\* and createdAt, or append the new record.
saveMonthlyReflection_updatedReflections(rs, reflection, clock) ==
  LET existingIndex == FindIndex(rs, {r \in Range(rs) : r.month = reflection.month})
      new == newReflection(reflection, clock)
  IN  IF existingIndex >= 1
        THEN [rs EXCEPT ![existingIndex] =
                [new EXCEPT !.id = rs[existingIndex].id,
                            !.createdAt = rs[existingIndex].createdAt]]
        ELSE rs \o <<new>>

\* saveYearlyReview: the record built from the argument and the clock.
newReview(review, clock) ==
  YearlyReview("yearly-" \o review.year \o "-" \o clock.now,
               review.year, review.reflectionText, clock.iso)

\* saveYearlyReview: overwrite the year's record in place or append.
saveYearlyReview_updatedReviews(ys, review, clock) ==
  LET existingIndex == FindIndex(ys, {r \in Range(ys) : r.year = review.year})
      new == newReview(review, clock)
  IN  IF existingIndex >= 1
        THEN [ys EXCEPT ![existingIndex] =
                [new EXCEPT !.id = ys[existingIndex].id,
                            !.createdAt = ys[existingIndex].createdAt]]
        ELSE ys \o <<new>>

\* Variant of newReflections that keeps every imported record.
newReflections_unfiltered(rs, importedReflections) == importedReflections

\* importMonthlyReflections: the imported records whose month is not held yet.
newReflections(rs, importedReflections) ==
  LET existingMonths == {r.month : r \in Range(rs)}
  IN  Filter(importedReflections,
             {r \in Range(importedReflections) : r.month \notin existingMonths})

\* importYearlyReviews: the imported records whose year is not held yet.
newReviews(ys, importedReviews) ==
  LET existingYears == {r.year : r \in Range(ys)}
  IN  Filter(importedReviews,
             {r \in Range(importedReviews) : r.year \notin existingYears})

\* Partial<Omit<MonthlyReflection, "id" | "createdAt">>: the fields present
\* and their values.
UpdateInputs ==
  {[fields |-> {"month"}, month |-> "2025-02",
    selectedFavorites |-> <<>>, reflectionText |-> ""],
   [fields |-> {"selectedFavorites", "reflectionText"}, month |-> "",
    selectedFavorites |-> <<"2025-01-05-08:00-0">>, reflectionText |-> "a good month"]}

\* { ...reflection, ...updates }.
mergeUpdates(reflection, updates) ==
  [reflection EXCEPT
     !.month = IF "month" \in updates.fields THEN updates.month ELSE @,
     !.selectedFavorites =
        IF "selectedFavorites" \in updates.fields THEN updates.selectedFavorites ELSE @,
     !.reflectionText =
        IF "reflectionText" \in updates.fields THEN updates.reflectionText ELSE @]

\* updateMonthlyReflection: merge the updates into every record with that id.
updateMonthlyReflection_updatedReflections(rs, id, updates) ==
  [i \in 1..Len(rs) |-> IF rs[i].id = id THEN mergeUpdates(rs[i], updates) ELSE rs[i]]

-----------------------------------------------------------------------------
(* Inputs: persisted contents found at start, and imported documents *)

JanEntry == newEntry([date |-> "2025-01-05", time |-> "08:00", items |-> ItemsPlain])
JanEntryStar == newEntry([date |-> "2025-01-05", time |-> "08:00", items |-> ItemsStar])
FebEntry == newEntry([date |-> "2025-02-01", time |-> "08:00", items |-> ItemsStar])

JanReflection ==
  MonthlyReflection("monthly-2025-01-1738400000000", "2025-01",
                    <<"2025-01-05-08:00-0">>, "a good month", "2025-02-01T08:53:20.000Z")
JanReflectionOther ==
  MonthlyReflection("monthly-2025-01-1741000000000", "2025-01",
                    <<>>, "", "2025-03-03T11:06:40.000Z")
FebReflection ==
  MonthlyReflection("monthly-2025-02-1741000000000", "2025-02",
                    <<>>, "", "2025-03-03T11:06:40.000Z")

Review2024 ==
  YearlyReview("yearly-2024-1738400000000", "2024", "a good year", "2025-02-01T08:53:20.000Z")
Review2024Other ==
  YearlyReview("yearly-2024-1741000000000", "2024", "", "2025-03-03T11:06:40.000Z")
Review2025 ==
  YearlyReview("yearly-2025-1741000000000", "2025", "", "2025-03-03T11:06:40.000Z")

\* What the entries key may hold when the store is constructed.
InitialEntriesItems ==
  {NullItem, CorruptItem, JSONStringify(<<JanEntry>>),
   JSONStringify(<<LegacyEntry>>), JSONStringify(<<ShortEntry>>)}

\* Arrays handed to the import operations.
ImportedEntries ==
  {<<>>, <<JanEntryStar>>, <<FebEntry, JanEntryStar>>, <<FebEntry, FebEntry>>,
   <<ShortEntry>>, <<LegacyEntry>>}
ImportedReflections ==
  {<<>>, <<JanReflectionOther>>, <<FebReflection, JanReflection>>,
   <<JanReflection, JanReflectionOther>>}
ImportedReviews ==
  {<<>>, <<Review2024Other>>, <<Review2025, Review2024>>,
   <<Review2024, Review2024Other>>}

\* Records as they may come out of JSON.parse: well-formed, repairable and
\* damaged beyond repair.
FourItems == ItemsPlain \o <<Item("D", TRUE)>>

RawEntries ==
  {JanEntry, FebEntry, LegacyEntry, ShortEntry, Null,
   Entry("2025-01-05-08:00", Undefined, "08:00", ItemsPlain),
   Entry(Undefined, "2025-01-05", Undefined, ItemsStar),
   Entry("  ", "2025-01-05", "08:00", ItemsPlain),
   Entry("e1", "Jan 5", "08:00", ItemsPlain),
   Entry("e2", "2025-13-45", "08:00", ItemsPlain),
   Entry("e3", "2025-01-05", "8am", ItemsPlain),
   Entry("e4", "2025-01-05", "08:00", NotAnArray),
   Entry("e5", "2025-01-05", "08:00", FourItems),
   Entry("e6", "2025-01-05", "08:00",
         <<Null, [text |-> NumberValue, favorite |-> TRUE], Item("C", FALSE)>>),
   Entry("e7", "2025-01-05", "08:00", <<Item("  ", FALSE), Item("", FALSE), Item("", FALSE)>>),
   Entry(NumberValue, "2025-02-01", "08:00", ItemsPlain),
   Entry("e8", NumberValue, "08:00", ItemsPlain),
   Entry("e9", "2025-02-01", "08:00", <<Item("", FALSE)>>)}

\* Arrays handed to validateEntries.
RawArrays ==
  {<<>>} \cup {<<a>> : a \in RawEntries} \cup {<<a, b>> : a, b \in RawEntries}

RECURSIVE SeqsUpTo(_, _)
\* The sequences over a set, up to a length.
SeqsUpTo(S, n) ==
  IF n = 0 THEN {<<>>}
  ELSE LET shorter == SeqsUpTo(S, n - 1)
       IN  shorter \cup {Append(q, x) : q \in shorter, x \in S}

\* Entries with starred items: two of 2025 that the forms wrote, one of 2024,
\* and an imported one of four items.
DecEntry == Entry("2024-12-31-08:00", "2024-12-31", "08:00", ItemsStar)
LongEntry == Entry("2025-03-08-08:00", "2025-03-08", "08:00", FourItems)

\* Reflections with selected favorites: keys the monthly review built, and
\* the keys of an imported reflection that is damaged or refers to entries
\* that may be gone.
MomentReflections ==
  {JanReflection, FebReflection,
   MonthlyReflection("monthly-2025-02-1738400000000", "2025-02",
                     <<favoriteKey(FebEntry.id, 1), favoriteKey(FebEntry.id, 0)>>,
                     "", "2025-02-01T08:53:20.000Z"),
   MonthlyReflection("monthly-2024-12-1738400000000", "2024-12",
                     <<favoriteKey(DecEntry.id, 0)>>, "", "2025-02-01T08:53:20.000Z"),
   MonthlyReflection("monthly-2025-03-1741000000000", "2025-03",
                     <<"nodash", "2025-02-01-08:00-two", "2025-02-01-08:00-2nd",
                       favoriteKey(LongEntry.id, 3), "gone-08:00-0">>,
                     "", "2025-03-03T11:06:40.000Z")}

\* Number(version.split(".")[0]) for the version strings of the model.
VersionMajor(version) ==
  CASE version = "0.9.0" -> 0
    [] version = "1.0.0" -> 1
    [] version = "1.1.0" -> 1
    [] version = "2.0.0" -> 2
    [] OTHER -> NaN

\* major > currentMajor; a comparison with NaN is false.
NumberGreater(a, b) == a # NaN /\ b # NaN /\ a > b

\* A file given to the import: whether it is JSON, whether data.entries,
\* data.monthlyReflections and data.yearlyReviews are arrays and what they
\* hold, and data.version (Undefined when there is none).
Document(parses, version, entriesIsArray, es, monthlyIsArray, rs, yearlyIsArray, ys) ==
  [parses |-> parses, version |-> version,
   entriesIsArray |-> entriesIsArray, entries |-> es,
   monthlyIsArray |-> monthlyIsArray, monthlyReflections |-> rs,
   yearlyIsArray |-> yearlyIsArray, yearlyReviews |-> ys]

Documents ==
  {Document(FALSE, Undefined, FALSE, <<>>, FALSE, <<>>, FALSE, <<>>),
   Document(TRUE, "1.1.0", FALSE, <<>>, TRUE, <<FebReflection>>, TRUE, <<Review2025>>),
   Document(TRUE, "2.0.0", TRUE, <<FebEntry>>, TRUE, <<FebReflection>>, TRUE, <<Review2025>>),
   Document(TRUE, "1.0.0", TRUE, <<FebEntry, JanEntryStar>>, TRUE,
            <<FebReflection, JanReflection>>, TRUE, <<Review2025>>),
   Document(TRUE, "0.9.0", TRUE, <<JanEntry>>, FALSE, <<>>, FALSE, <<>>),
   Document(TRUE, "beta", TRUE, <<FebEntry>>, TRUE, <<JanReflectionOther>>, FALSE, <<>>),
   Document(TRUE, Undefined, TRUE, <<>>, FALSE, <<>>, TRUE, <<Review2024Other>>)}

\* handleFileChange throws "Invalid file format": no entries array.
invalidFileFormat(data) == ~data.entriesIsArray

\* Variant of newerVersion with the comparison the other way round.
newerVersion_swapped(data) ==
  /\ ~Falsy(data.version)
  /\ NumberGreater(CurrentMajor, VersionMajor(data.version))

\* handleFileChange throws "from a newer version".
newerVersion(data) ==
  /\ ~Falsy(data.version)
  /\ NumberGreater(VersionMajor(data.version), CurrentMajor)

\* The import is rejected before any collection is touched.
importRejected(data) ==
  ~data.parses \/ invalidFileFormat(data) \/ newerVersion(data)

-----------------------------------------------------------------------------
(* The store *)

\* The last call: the operation, the error it ended with ("" when it ended
\* normally), what it returned (0 when it returns nothing or throws), and
\* whether a record it names (by id, key, month or year) was held before the
\* call; for the file import, whether the file was accepted.
Call(op, error, ret, hit) == [op |-> op, error |-> error, ret |-> ret, hit |-> hit]

\* What a call ends with when its write went through, or threw.
WriteError(ok) == IF ok THEN "" ELSE "QuotaExceededError"

\* A call whose write throws is counted; the count is bounded.
Written(ok) ==
  /\ ~ok => writeFailures < MaxWriteFailures
  /\ writeFailures' = IF ok THEN writeFailures ELSE writeFailures + 1

\* localStorage.setItem(key, JSON.stringify(arr)): it writes the item, or it
\* throws (quota exceeded, storage disabled) and writes nothing.
setItem(store, key, arr, ok) ==
  IF ok THEN [store EXCEPT ![key] = JSONStringify(arr)] ELSE store

\* The entries load effect: a missing item or a parse error leaves the state
\* as it is.
loadEntries(item, current) ==
  IF Stored(item) /\ Parses(item) THEN entriesWithIds(JSONParse(item)) ELSE current

\* loadMonthlyReflections and loadYearlyReviews: a missing item gives [], a
\* parse error leaves the state as it is.
loadCollection(item, current) ==
  IF Stored(item)
    THEN IF Parses(item) THEN JSONParse(item) ELSE current
    ELSE <<>>

\* What localStorage.setItem may throw: DOMExceptions with a name and a
\* legacy code, another Error, and values that are no objects (a string,
\* null); NoThrow when the write goes through.
NoThrow == [returns |-> TRUE]
Thrown ==
  {[name |-> "QuotaExceededError", code |-> 22],
   [name |-> "QuotaExceededError", code |-> 0],
   [name |-> "QUOTA_EXCEEDED_ERR", code |-> 22],
   [name |-> "NS_ERROR_DOM_QUOTA_REACHED", code |-> 1014],
   [name |-> "SecurityError", code |-> 18],
   [name |-> "SECURITY_ERR", code |-> 18],
   [name |-> "InvalidStateError", code |-> 11],
   [name |-> "TypeError", message |-> "localStorage is undefined"],
   [string |-> "boom"],
   Null}

\* err.name === name; a value without the property gives undefined.
nameIs(err, name) == "name" \in DOMAIN err /\ err.name = name

\* err.code === code.
codeIs(err, code) == "code" \in DOMAIN err /\ err.code = code

\* safeSetItem: what the call ends with.  Reading a property of null throws
\* a TypeError inside the catch block, which leaves the function.
safeSetItem_result(thrown) ==
  IF thrown = NoThrow THEN [threw |-> "", success |-> TRUE, type |-> ""]
  ELSE IF thrown = Null THEN [threw |-> "TypeError", success |-> FALSE, type |-> ""]
  ELSE IF nameIs(thrown, "QuotaExceededError") \/ codeIs(thrown, 22)
    THEN [threw |-> "", success |-> FALSE, type |-> "quota_exceeded"]
  ELSE IF nameIs(thrown, "SecurityError") \/ codeIs(thrown, 18)
    THEN [threw |-> "", success |-> FALSE, type |-> "disabled"]
  ELSE [threw |-> "", success |-> FALSE, type |-> "unknown"]

EntryIds == {dateTimeKey(e) : e \in EntryInputs} \cup {"no-such-id"}

\* An evaluation: the function, what it was given and what it returned.
Evaluation(fn, given, returned) == [fn |-> fn, given |-> given, returned |-> returned]

NoEvaluation == Evaluation("none", <<>>, <<>>)

\* No component besides the page that holds the store is mounted.
NoComponent == [kind |-> "none"]

Init ==
  /\ evaluated = NoEvaluation
  /\ component = NoComponent
  /\ \E e \in InitialEntriesItems, r \in {NullItem, CorruptItem, JSONStringify(<<JanReflection>>)},
        y \in {NullItem, JSONStringify(<<Review2024>>)} :
       storage = (STORAGE_KEY :> e) @@ (MONTHLY_REFLECTIONS_KEY :> r)
                   @@ (YEARLY_REVIEWS_KEY :> y)
  /\ entries = <<>>
  /\ monthlyReflections = <<>>
  /\ yearlyReviews = <<>>
  /\ isLoading = TRUE
  /\ call = Call("none", "", 0, FALSE)
  /\ writeFailures = 0

\* The two mount effects: load the three collections, clear the loading flag.
useEffect_load ==
  /\ isLoading
  /\ entries' = loadEntries(storage[STORAGE_KEY], entries)
  /\ monthlyReflections' =
       loadCollection(storage[MONTHLY_REFLECTIONS_KEY], monthlyReflections)
  /\ yearlyReviews' = loadCollection(storage[YEARLY_REVIEWS_KEY], yearlyReviews)
  /\ isLoading' = FALSE
  /\ call' = Call("load", "", 0, FALSE)
  /\ UNCHANGED <<storage, writeFailures, evaluated, component>>

\* Every operation below sets the React state first and writes localStorage
\* second.  When the write throws, the exception leaves the operation, and
\* the state update that was queued before it is still applied.

saveEntry(entry, ok) ==
  /\ ~isLoading
  /\ LET updatedEntries == saveEntry_updatedEntries(entries, entry)
     IN  /\ Len(updatedEntries) <= MaxEntries
         /\ entries' = updatedEntries
         /\ storage' = setItem(storage, STORAGE_KEY, updatedEntries, ok)
  /\ call' = Call("saveEntry", WriteError(ok), 0, \E e \in Range(entries) : e.id = dateTimeKey(entry))
  /\ Written(ok)
  /\ UNCHANGED <<evaluated, component>>
  /\ UNCHANGED <<monthlyReflections, yearlyReviews, isLoading>>

updateEntry(id, updatedEntry, ok) ==
  /\ ~isLoading
  /\ LET updatedEntries == updateEntry_updatedEntries(entries, id, updatedEntry)
     IN  /\ entries' = updatedEntries
         /\ storage' = setItem(storage, STORAGE_KEY, updatedEntries, ok)
  /\ call' = Call("updateEntry", WriteError(ok), 0, \E e \in Range(entries) : e.id = id)
  /\ Written(ok)
  /\ UNCHANGED <<evaluated, component>>
  /\ UNCHANGED <<monthlyReflections, yearlyReviews, isLoading>>

deleteEntry(id, ok) ==
  /\ ~isLoading
  /\ LET updatedEntries == deleteEntry_updatedEntries(entries, id)
     IN  /\ entries' = updatedEntries
         /\ storage' = setItem(storage, STORAGE_KEY, updatedEntries, ok)
  /\ call' = Call("deleteEntry", WriteError(ok), 0, \E e \in Range(entries) : e.id = id)
  /\ Written(ok)
  /\ UNCHANGED <<evaluated, component>>
  /\ UNCHANGED <<monthlyReflections, yearlyReviews, isLoading>>

importEntries(importedEntries, ok) ==
  /\ ~isLoading
  /\ LET combined == combinedEntries(entries, importedEntries)
     IN  /\ Len(combined) <= MaxEntries
         /\ entries' = combined
         /\ storage' = setItem(storage, STORAGE_KEY, combined, ok)
  /\ call' = Call("importEntries", WriteError(ok),
                  IF ok THEN Len(importEntries_newEntries(entries, importedEntries)) ELSE 0,
                  \E e \in Range(importedEntries) :
                    dateTimeKey(e) \in {dateTimeKey(x) : x \in Range(entries)})
  /\ Written(ok)
  /\ UNCHANGED <<evaluated, component>>
  /\ UNCHANGED <<monthlyReflections, yearlyReviews, isLoading>>

importMonthlyReflections(importedReflections, ok) ==
  /\ ~isLoading
  /\ LET combinedReflections ==
           monthlyReflections \o newReflections(monthlyReflections, importedReflections)
     IN  /\ Len(combinedReflections) <= MaxReflections
         /\ monthlyReflections' = combinedReflections
         /\ storage' = setItem(storage, MONTHLY_REFLECTIONS_KEY, combinedReflections, ok)
  /\ call' = Call("importMonthlyReflections", WriteError(ok),
                  IF ok THEN Len(newReflections(monthlyReflections, importedReflections))
                        ELSE 0,
                  \E r \in Range(importedReflections) :
                    r.month \in {x.month : x \in Range(monthlyReflections)})
  /\ Written(ok)
  /\ UNCHANGED <<evaluated, component>>
  /\ UNCHANGED <<entries, yearlyReviews, isLoading>>

importYearlyReviews(importedReviews, ok) ==
  /\ ~isLoading
  /\ LET combinedReviews == yearlyReviews \o newReviews(yearlyReviews, importedReviews)
     IN  /\ Len(combinedReviews) <= MaxReviews
         /\ yearlyReviews' = combinedReviews
         /\ storage' = setItem(storage, YEARLY_REVIEWS_KEY, combinedReviews, ok)
  /\ call' = Call("importYearlyReviews", WriteError(ok),
                  IF ok THEN Len(newReviews(yearlyReviews, importedReviews)) ELSE 0,
                  \E r \in Range(importedReviews) :
                    r.year \in {x.year : x \in Range(yearlyReviews)})
  /\ Written(ok)
  /\ UNCHANGED <<evaluated, component>>
  /\ UNCHANGED <<entries, monthlyReflections, isLoading>>

saveMonthlyReflection(reflection, clock, ok) ==
  /\ ~isLoading
  /\ LET updatedReflections ==
           saveMonthlyReflection_updatedReflections(monthlyReflections, reflection, clock)
     IN  /\ Len(updatedReflections) <= MaxReflections
         /\ monthlyReflections' = updatedReflections
         /\ storage' = setItem(storage, MONTHLY_REFLECTIONS_KEY, updatedReflections, ok)
  /\ call' = Call("saveMonthlyReflection", WriteError(ok), 0,
                  \E r \in Range(monthlyReflections) : r.month = reflection.month)
  /\ Written(ok)
  /\ UNCHANGED <<evaluated, component>>
  /\ UNCHANGED <<entries, yearlyReviews, isLoading>>

saveYearlyReview(review, clock, ok) ==
  /\ ~isLoading
  /\ LET updatedReviews == saveYearlyReview_updatedReviews(yearlyReviews, review, clock)
     IN  /\ Len(updatedReviews) <= MaxReviews
         /\ yearlyReviews' = updatedReviews
         /\ storage' = setItem(storage, YEARLY_REVIEWS_KEY, updatedReviews, ok)
  /\ call' = Call("saveYearlyReview", WriteError(ok), 0,
                  \E r \in Range(yearlyReviews) : r.year = review.year)
  /\ Written(ok)
  /\ UNCHANGED <<evaluated, component>>
  /\ UNCHANGED <<entries, monthlyReflections, isLoading>>

updateMonthlyReflection(id, updates, ok) ==
  /\ ~isLoading
  /\ LET updatedReflections ==
           updateMonthlyReflection_updatedReflections(monthlyReflections, id, updates)
     IN  /\ monthlyReflections' = updatedReflections
         /\ storage' = setItem(storage, MONTHLY_REFLECTIONS_KEY, updatedReflections, ok)
  /\ call' = Call("updateMonthlyReflection", WriteError(ok), 0,
                  \E r \in Range(monthlyReflections) : r.id = id)
  /\ Written(ok)
  /\ UNCHANGED <<evaluated, component>>
  /\ UNCHANGED <<entries, yearlyReviews, isLoading>>

\* The Archive page's file import (the FileReader's onload): reject the file,
\* or import the entries, then the monthly reflections, then the yearly
\* reviews.  A write that throws ends the import there (the catch block).
handleFileChange(data, okEntries, okMonthly, okYearly) ==
  /\ ~isLoading
  /\ LET rejected == importRejected(data)
         doMonthly == ~rejected /\ okEntries /\ data.monthlyIsArray
         reachedYearly == ~rejected /\ okEntries /\ (doMonthly => okMonthly)
         doYearly == reachedYearly /\ data.yearlyIsArray
         combined == combinedEntries(entries, data.entries)
         combinedReflections ==
           monthlyReflections \o newReflections(monthlyReflections, data.monthlyReflections)
         combinedReviews == yearlyReviews \o newReviews(yearlyReviews, data.yearlyReviews)
         written == rejected \/ (reachedYearly /\ (doYearly => okYearly))
         store1 == IF rejected THEN storage
                   ELSE setItem(storage, STORAGE_KEY, combined, okEntries)
         store2 == IF doMonthly
                     THEN setItem(store1, MONTHLY_REFLECTIONS_KEY, combinedReflections,
                                  okMonthly)
                     ELSE store1
         store3 == IF doYearly
                     THEN setItem(store2, YEARLY_REVIEWS_KEY, combinedReviews, okYearly)
                     ELSE store2
     IN  /\ Len(combined) <= MaxEntries
         /\ Len(combinedReflections) <= MaxReflections
         /\ Len(combinedReviews) <= MaxReviews
         /\ entries' = IF rejected THEN entries ELSE combined
         /\ monthlyReflections' =
              IF doMonthly THEN combinedReflections ELSE monthlyReflections
         /\ yearlyReviews' = IF doYearly THEN combinedReviews ELSE yearlyReviews
         /\ storage' = store3
         /\ call' = Call("handleFileChange",
                         IF ~data.parses THEN "SyntaxError"
                         ELSE IF invalidFileFormat(data) THEN "Invalid file format"
                         ELSE IF newerVersion(data) THEN "This backup is from a newer version"
                         ELSE WriteError(written),
                         0, ~rejected)
         /\ Written(written)
  /\ UNCHANGED <<isLoading, evaluated, component>>

\* Evaluations of the validation functions.  They read and write no state of
\* the store.

Evaluate_validateEntries(rawEntries, draws, now) ==
  /\ evaluated' = Evaluation("validateEntries", rawEntries,
                             validateEntries(rawEntries, draws, now))
  /\ UNCHANGED <<storage, entries, monthlyReflections, yearlyReviews, isLoading, call,
                 writeFailures, component>>

\* repairEntry is called on a record that failed validateEntry.
Evaluate_repairEntry(entry, draw, now) ==
  /\ ~validateEntry(entry).valid
  /\ evaluated' = Evaluation("repairEntry", entry, repairEntry(entry, draw, now))
  /\ UNCHANGED <<storage, entries, monthlyReflections, yearlyReviews, isLoading, call,
                 writeFailures, component>>

\* repairEntry on the entry a repair returned.
Evaluate_repairEntry_again(draw, now) ==
  /\ evaluated.fn = "repairEntry"
  /\ evaluated.returned # Null
  /\ evaluated' = Evaluation("repairEntry again", evaluated.returned,
                             repairEntry(evaluated.returned, draw, now))
  /\ UNCHANGED <<storage, entries, monthlyReflections, yearlyReviews, isLoading, call,
                 writeFailures, component>>

\* Evaluations of the streak computations over the entries of the store.

Evaluate_calculateStreak(today) ==
  /\ ~isLoading
  /\ evaluated' = Evaluation("calculateStreak", today, calculateStreak(entries, today))
  /\ UNCHANGED <<storage, entries, monthlyReflections, yearlyReviews, isLoading, call,
                 writeFailures, component>>

Evaluate_calculateLongestStreak ==
  /\ ~isLoading
  /\ evaluated' = Evaluation("calculateLongestStreak", <<>>, calculateLongestStreak(entries))
  /\ UNCHANGED <<storage, entries, monthlyReflections, yearlyReviews, isLoading, call,
                 writeFailures, component>>

Evaluate_getYearSummary_longestStreak(year, zone) ==
  /\ ~isLoading
  /\ evaluated' = Evaluation("getYearSummary.longestStreak", year,
                             getYearSummary_longestStreak(entries, year, zone))
  /\ UNCHANGED <<storage, entries, monthlyReflections, yearlyReviews, isLoading, call,
                 writeFailures, component>>

\* Evaluations of the top moments over the entries and the reflections of
\* the store.

Evaluate_getYearSummary_topMoments(year) ==
  /\ ~isLoading
  /\ evaluated' = Evaluation("getYearSummary.topMoments", year,
                             getYearSummary_topMoments(entries, monthlyReflections, year))
  /\ UNCHANGED <<storage, entries, monthlyReflections, yearlyReviews, isLoading, call,
                 writeFailures, component>>

Evaluate_getMonthlyFavoritesForYear(year) ==
  /\ ~isLoading
  /\ evaluated' = Evaluation("getMonthlyFavoritesForYear", year,
                             getMonthlyFavoritesForYear(entries, monthlyReflections, year))
  /\ UNCHANGED <<storage, entries, monthlyReflections, yearlyReviews, isLoading, call,
                 writeFailures, component>>

\* A MonthlyReviewCard rendered for a reflection of the store.
Evaluate_favoriteItems(reflection) ==
  /\ ~isLoading
  /\ reflection \in Range(monthlyReflections)
  /\ evaluated' = Evaluation("favoriteItems", reflection, favoriteItems(entries, reflection))
  /\ UNCHANGED <<storage, entries, monthlyReflections, yearlyReviews, isLoading, call,
                 writeFailures, component>>

\* Evaluations of the review prompts on a day, one in a run.

Evaluate_checkYearlyPrompt(today, dismissedPromptMonth, dismissedYearBanner, reviewVisitedDate) ==
  /\ ~isLoading
  /\ evaluated.fn = "none"
  /\ evaluated' =
       Evaluation("checkYearlyPrompt",
                  [today |-> today, dismissedPromptMonth |-> dismissedPromptMonth,
                   dismissedYearBanner |-> dismissedYearBanner,
                   reviewVisitedDate |-> reviewVisitedDate],
                  [shouldShow |-> shouldShowYearlyReviewPrompt(entries, yearlyReviews, today),
                   showYearlyReviewBanner |->
                     checkYearlyPrompt(entries, yearlyReviews, today, dismissedYearBanner,
                                       reviewVisitedDate)])
  /\ UNCHANGED <<storage, entries, monthlyReflections, yearlyReviews, isLoading, call,
                 writeFailures, component>>

Evaluate_getMonthsNeedingReview(today) ==
  /\ ~isLoading
  /\ evaluated.fn = "none"
  /\ evaluated' = Evaluation("getMonthsNeedingReview", today,
                             getMonthsNeedingReview(entries, monthlyReflections, today))
  /\ UNCHANGED <<storage, entries, monthlyReflections, yearlyReviews, isLoading, call,
                 writeFailures, component>>

\* safeSetItem(key, value): localStorage.setItem writes the item or throws.
safeSetItem(key, value, thrown) ==
  /\ storage' = IF thrown = NoThrow THEN [storage EXCEPT ![key] = value] ELSE storage
  /\ evaluated' = Evaluation("safeSetItem", [key |-> key, value |-> value, thrown |-> thrown],
                             safeSetItem_result(thrown))
  /\ UNCHANGED <<entries, monthlyReflections, yearlyReviews, isLoading, call,
                 writeFailures, component>>

-----------------------------------------------------------------------------
(* The monthly review (components/MonthlyReview) over the page's store *)

\* prev.length < 5.
MaxFavorites == 5

\* getMonthlyReflection: the first reflection of the month, Null for undefined.
getMonthlyReflection(rs, month) ==
  IF \E r \in Range(rs) : r.month = month
    THEN rs[FindIndex(rs, {r \in Range(rs) : r.month = month})]
    ELSE Null

\* getEntriesForMonth: the entries dated within the month.
getEntriesForMonth(es, month) ==
  Filter(es, {e \in Range(es) : formatMonth(e.date) = month})

\* getStarredItemsForMonth.
getStarredItemsForMonth(es, month) ==
  getYearStarredItems_entries(getEntriesForMonth(es, month), 1, <<>>)

\* The state of a useEntries instance at its first render, before its mount
\* effects have run.
useEntries_firstRender ==
  [entries |-> <<>>, monthlyReflections |-> <<>>, yearlyReviews |-> <<>>]

\* The state of a useEntries instance once its mount effects have run.
useEntries_mounted(store) ==
  [entries |-> loadEntries(store[STORAGE_KEY], useEntries_firstRender.entries),
   monthlyReflections |->
     loadCollection(store[MONTHLY_REFLECTIONS_KEY], useEntries_firstRender.monthlyReflections),
   yearlyReviews |->
     loadCollection(store[YEARLY_REVIEWS_KEY], useEntries_firstRender.yearlyReviews)]

\* Variant of handleReload that loads nothing.
handleReload_noLoad(instance, store) == instance

\* handleReload: loadMonthlyReflections() and loadYearlyReviews() of an
\* instance, given as its two collections.
handleReload(instance, store) ==
  [instance EXCEPT
     !.monthlyReflections = loadCollection(store[MONTHLY_REFLECTIONS_KEY], @),
     !.yearlyReviews = loadCollection(store[YEARLY_REVIEWS_KEY], @)]

\* toggleFavorite: the updater of the pending selection.
toggleFavorite_updater(prev, key) ==
  IF key \in Range(prev) THEN Filter(prev, Range(prev) \ {key})
  ELSE IF Len(prev) < MaxFavorites THEN Append(prev, key)
  ELSE prev

\* The component is mounted: its first render takes the initial values of
\* selectedFavorites and reflectionText from the reflections its own
\* useEntries instance holds at that render; then the mount effects of the
\* instance load the collections.
MonthlyReview_mount(month) ==
  /\ ~isLoading
  /\ component.kind = "none"
  /\ LET existingReflection ==
           getMonthlyReflection(useEntries_firstRender.monthlyReflections, month)
     IN  component' =
           [kind |-> "MonthlyReview", month |-> month,
            instance |-> useEntries_mounted(storage),
            selectedFavorites |->
              IF existingReflection = Null THEN <<>>
              ELSE existingReflection.selectedFavorites,
            reflectionText |->
              IF existingReflection = Null THEN ""
              ELSE existingReflection.reflectionText,
            notification |-> ""]
  /\ call' = Call("MonthlyReview", "", 0,
                  getMonthlyReflection(useEntries_mounted(storage).monthlyReflections,
                                       month) # Null)
  /\ UNCHANGED <<storage, entries, monthlyReflections, yearlyReviews, isLoading,
                 writeFailures, evaluated>>

\* toggleItemStar, over the entries of the component's instance: updateEntry
\* sets the state and writes; when the write throws, the exception leaves
\* the handler before the selection is touched.
toggleItemStar(entryId, itemIndex, ok) ==
  /\ component.kind = "MonthlyReview"
  /\ component.notification = ""
  /\ \E e \in Range(getEntriesForMonth(component.instance.entries, component.month)) :
       e.id = entryId /\ hasItem(e.items, itemIndex)
  /\ LET entry == find(component.instance.entries, entryId)
         updatedItems == [entry.items EXCEPT ![itemIndex + 1].favorite = ~@]
         updatedEntries ==
           updateEntry_updatedEntries(
             component.instance.entries, entryId,
             [date |-> entry.date, time |-> entry.time, items |-> updatedItems])
         key == favoriteKey(entryId, itemIndex)
     IN  /\ component' =
               [component EXCEPT
                  !.instance.entries = updatedEntries,
                  !.selectedFavorites =
                    IF ok /\ ~updatedItems[itemIndex + 1].favorite
                      THEN Filter(@, Range(@) \ {key})
                      ELSE @]
         /\ storage' = setItem(storage, STORAGE_KEY, updatedEntries, ok)
  /\ call' = Call("toggleItemStar", WriteError(ok), 0, TRUE)
  /\ Written(ok)
  /\ UNCHANGED <<entries, monthlyReflections, yearlyReviews, isLoading, evaluated>>

\* toggleFavorite, offered for the starred items of the month.
toggleFavorite(entryId, itemIndex) ==
  /\ component.kind = "MonthlyReview"
  /\ component.notification = ""
  /\ \E item \in Range(getStarredItemsForMonth(component.instance.entries, component.month)) :
       item.entryId = entryId /\ item.itemIndex = itemIndex
  /\ component' =
       [component EXCEPT
          !.selectedFavorites = toggleFavorite_updater(@, favoriteKey(entryId, itemIndex))]
  /\ call' = Call("toggleFavorite", "", 0,
                  favoriteKey(entryId, itemIndex) \in Range(component.selectedFavorites))
  /\ UNCHANGED <<storage, entries, monthlyReflections, yearlyReviews, isLoading,
                 writeFailures, evaluated>>

\* handleSave, offered when the selection is not empty: saveMonthlyReflection
\* of the component's instance, then the monthlyReviewUpdated event is
\* dispatched.  When the write throws, nothing is dispatched.
handleSave(clock, ok) ==
  /\ component.kind = "MonthlyReview"
  /\ component.notification = ""
  /\ component.selectedFavorites # <<>>
  /\ LET updatedReflections ==
           saveMonthlyReflection_updatedReflections(
             component.instance.monthlyReflections,
             [month |-> component.month,
              selectedFavorites |-> component.selectedFavorites,
              reflectionText |-> Trim(component.reflectionText)],
             clock)
     IN  /\ Len(updatedReflections) <= MaxReflections
         /\ component' =
               [component EXCEPT
                  !.instance.monthlyReflections = updatedReflections,
                  !.notification = IF ok THEN "monthlyReviewUpdated" ELSE ""]
         /\ storage' = setItem(storage, MONTHLY_REFLECTIONS_KEY, updatedReflections, ok)
  /\ call' = Call("handleSave", WriteError(ok), 0,
                  getMonthlyReflection(component.instance.monthlyReflections,
                                       component.month) # Null)
  /\ Written(ok)
  /\ UNCHANGED <<entries, monthlyReflections, yearlyReviews, isLoading, evaluated>>

\* The Archive page hears monthlyReviewUpdated and dispatches
\* reloadMonthlyReflections; handleReload runs in every mounted instance: the
\* page's and the component's.
monthlyReviewUpdated_listener ==
  /\ component.kind = "MonthlyReview"
  /\ component.notification = "monthlyReviewUpdated"
  /\ LET page == handleReload([monthlyReflections |-> monthlyReflections,
                               yearlyReviews |-> yearlyReviews], storage)
     IN  /\ monthlyReflections' = page.monthlyReflections
         /\ yearlyReviews' = page.yearlyReviews
  /\ component' = [component EXCEPT !.instance = handleReload(@, storage),
                                    !.notification = ""]
  /\ call' = Call("reloadMonthlyReflections", "", 0, TRUE)
  /\ UNCHANGED <<storage, entries, isLoading, writeFailures, evaluated>>

\* onClose, and onSave after a save: the component is unmounted.
MonthlyReview_unmount ==
  /\ component.kind = "MonthlyReview"
  /\ component.notification = ""
  /\ component' = NoComponent
  /\ call' = Call("onClose", "", 0, TRUE)
  /\ UNCHANGED <<storage, entries, monthlyReflections, yearlyReviews, isLoading,
                 writeFailures, evaluated>>

-----------------------------------------------------------------------------
(* Editing an entry in the Archive (pages/Archive) *)

\* The item objects of the edited entry are the objects editingItems holds:
\* [...items] copies the array, not its elements.  An assignment to a field
\* of editingItems[index] is therefore seen in the entries state as well.
sharedItems(es, editingId, editingItems) ==
  [i \in 1..Len(es) |->
     IF es[i].id = editingId THEN [es[i] EXCEPT !.items = editingItems] ELSE es[i]]

\* startEditing(entry.id, entry.items).  `before` keeps the entries as they
\* were at this call, for the properties.
startEditing(entryId) ==
  /\ ~isLoading
  /\ component.kind = "none"
  /\ \E e \in Range(entries) : e.id = entryId
  /\ component' = [kind |-> "Archive", editingId |-> entryId,
                   editingItems |-> find(entries, entryId).items,
                   before |-> entries]
  /\ call' = Call("startEditing", "", 0, TRUE)
  /\ UNCHANGED <<storage, entries, monthlyReflections, yearlyReviews, isLoading,
                 writeFailures, evaluated>>

\* handleEditChange: updated[index].text = value.
handleEditChange(index, value) ==
  /\ component.kind = "Archive"
  /\ hasItem(component.editingItems, index)
  /\ LET updated == [component.editingItems EXCEPT ![index + 1].text = value]
     IN  /\ component' = [component EXCEPT !.editingItems = updated]
         /\ entries' = sharedItems(entries, component.editingId, updated)
  /\ call' = Call("handleEditChange", "", 0, TRUE)
  /\ UNCHANGED <<storage, monthlyReflections, yearlyReviews, isLoading,
                 writeFailures, evaluated>>

\* toggleEditFavorite: updated[index].favorite = !updated[index].favorite.
toggleEditFavorite(index) ==
  /\ component.kind = "Archive"
  /\ hasItem(component.editingItems, index)
  /\ LET updated == [component.editingItems EXCEPT ![index + 1].favorite = ~@]
     IN  /\ component' = [component EXCEPT !.editingItems = updated]
         /\ entries' = sharedItems(entries, component.editingId, updated)
  /\ call' = Call("toggleEditFavorite", "", 0, TRUE)
  /\ UNCHANGED <<storage, monthlyReflections, yearlyReviews, isLoading,
                 writeFailures, evaluated>>

\* cancelEditing: the editing state is dropped; the entries are not touched.
cancelEditing ==
  /\ component.kind = "Archive"
  /\ component' = NoComponent
  /\ call' = Call("cancelEditing", "", 0, TRUE)
  /\ UNCHANGED <<storage, entries, monthlyReflections, yearlyReviews, isLoading,
                 writeFailures, evaluated>>

\* saveEdit: updateEntry with the entry's date and time and the edited items;
\* when the write throws, the editing state stays.
saveEdit(ok) ==
  /\ component.kind = "Archive"
  /\ LET entry == find(entries, component.editingId)
         updatedEntries ==
           updateEntry_updatedEntries(
             entries, component.editingId,
             [date |-> entry.date, time |-> entry.time,
              items |-> component.editingItems])
     IN  /\ entries' = updatedEntries
         /\ storage' = setItem(storage, STORAGE_KEY, updatedEntries, ok)
  /\ component' = IF ok THEN NoComponent ELSE component
  /\ call' = Call("saveEdit", WriteError(ok), 0, TRUE)
  /\ Written(ok)
  /\ UNCHANGED <<monthlyReflections, yearlyReviews, isLoading, evaluated>>

-----------------------------------------------------------------------------
(* The layout's reminder (layout/Layout) and the entry form (components/EntryInput) *)

\* The routes of the navigation bar.
navItems == {"/", "/archive", "/streak"}

\* The notification effect of the Layout: hasTodayEntry() is asked of the
\* Layout's own useEntries instance.
Layout_shouldShow(layoutEntries, notificationDismissed, pathname, today) ==
  /\ ~hasTodayEntry(layoutEntries, today)
  /\ ~notificationDismissed
  /\ pathname # "/"

\* The Layout as mounted at the start of the application, its instance
\* loaded and its effect run.
Layout_mount(store, pathname, today) ==
  [kind |-> "Layout",
   entries |-> useEntries_mounted(store).entries,
   showNotification |->
     Layout_shouldShow(useEntries_mounted(store).entries, FALSE, pathname, today),
   notificationDismissed |-> FALSE,
   pathname |-> pathname]

\* handleSubmit of the entry form, shown on "/" while the form's instance
\* holds no entry of today: saveEntry, then the entryAdded event, upon which
\* the Layout hides the notification and its effect runs again.  When the
\* write throws, the exception leaves handleSubmit before the event.
handleSubmit(today, time, ok) ==
  /\ ~isLoading
  /\ component.kind = "Layout"
  /\ component.pathname = "/"
  /\ ~hasTodayEntry(entries, today)
  /\ LET entryData == [date |-> today, time |-> time, items |-> ItemsPlain]
         updatedEntries == saveEntry_updatedEntries(entries, entryData)
     IN  /\ Len(updatedEntries) <= MaxEntries
         /\ entries' = updatedEntries
         /\ storage' = setItem(storage, STORAGE_KEY, updatedEntries, ok)
  /\ component' =
       IF ok
         THEN [component EXCEPT
                 !.showNotification =
                   Layout_shouldShow(component.entries, component.notificationDismissed,
                                     component.pathname, today)]
         ELSE component
  /\ call' = Call("handleSubmit", WriteError(ok), 0, TRUE)
  /\ Written(ok)
  /\ UNCHANGED <<monthlyReflections, yearlyReviews, isLoading, evaluated>>

\* A navigation: the page of the route is mounted with a useEntries instance
\* of its own; the Layout stays mounted and its effect runs for the new
\* location.pathname.
navigate(pathname, today) ==
  /\ ~isLoading
  /\ component.kind = "Layout"
  /\ component.pathname # pathname
  /\ entries' = useEntries_mounted(storage).entries
  /\ monthlyReflections' = useEntries_mounted(storage).monthlyReflections
  /\ yearlyReviews' = useEntries_mounted(storage).yearlyReviews
  /\ component' =
       [component EXCEPT
          !.pathname = pathname,
          !.showNotification =
            Layout_shouldShow(component.entries, component.notificationDismissed,
                              pathname, today)]
  /\ call' = Call("navigate", "", 0, TRUE)
  /\ UNCHANGED <<storage, isLoading, writeFailures, evaluated>>

\* handleDismissNotification.
handleDismissNotification ==
  /\ component.kind = "Layout"
  /\ component.showNotification
  /\ component' = [component EXCEPT !.notificationDismissed = TRUE,
                                    !.showNotification = FALSE]
  /\ call' = Call("handleDismissNotification", "", 0, TRUE)
  /\ UNCHANGED <<storage, entries, monthlyReflections, yearlyReviews, isLoading,
                 writeFailures, evaluated>>

-----------------------------------------------------------------------------
(* Specifications *)

EntryOperation ==
  \/ \E entry \in EntryInputs, ok \in BOOLEAN : saveEntry(entry, ok)
  \/ \E id \in EntryIds, updatedEntry \in EntryInputs, ok \in BOOLEAN :
       updateEntry(id, updatedEntry, ok)
  \/ \E id \in EntryIds, ok \in BOOLEAN : deleteEntry(id, ok)
  \/ \E importedEntries \in ImportedEntries, ok \in BOOLEAN :
       importEntries(importedEntries, ok)

MonthlyOperation ==
  \/ \E reflection \in ReflectionInputs, clock \in Clock, ok \in BOOLEAN :
       saveMonthlyReflection(reflection, clock, ok)
  \/ \E importedReflections \in ImportedReflections, ok \in BOOLEAN :
       importMonthlyReflections(importedReflections, ok)
  \/ \E id \in {r.id : r \in Range(monthlyReflections)} \cup {"no-such-id"},
        updates \in UpdateInputs, ok \in BOOLEAN :
       updateMonthlyReflection(id, updates, ok)

YearlyOperation ==
  \/ \E review \in ReviewInputs, clock \in Clock, ok \in BOOLEAN :
       saveYearlyReview(review, clock, ok)
  \/ \E importedReviews \in ImportedReviews, ok \in BOOLEAN :
       importYearlyReviews(importedReviews, ok)

ReviewOperation ==
  \/ MonthlyOperation
  \/ YearlyOperation

FileImport ==
  \E data \in Documents, okEntries \in BOOLEAN, okMonthly \in BOOLEAN,
     okYearly \in BOOLEAN :
    handleFileChange(data, okEntries, okMonthly, okYearly)

Next ==
  \/ useEffect_load
  \/ EntryOperation
  \/ ReviewOperation
  \/ FileImport

Spec == Init /\ [][Next]_vars

\* The store with the entries operations only; the other two keys start empty.
InitEntries ==
  /\ Init
  /\ storage[MONTHLY_REFLECTIONS_KEY] = NullItem
  /\ storage[YEARLY_REVIEWS_KEY] = NullItem

NextEntries ==
  \/ useEffect_load
  \/ EntryOperation

SpecEntries == InitEntries /\ [][NextEntries]_vars

\* The store with the operations on monthly reflections and yearly reviews
\* only; the entries key starts empty.
InitReviews ==
  /\ Init
  /\ storage[STORAGE_KEY] = NullItem

MonthlyOperations ==
  {"saveMonthlyReflection", "importMonthlyReflections", "updateMonthlyReflection"}
YearlyOperations == {"saveYearlyReview", "importYearlyReviews"}

\* The operations on the two collections read and write disjoint state, so
\* a run is explored for one collection at a time: after the load, the calls
\* of a run are all on monthly reflections or all on yearly reviews.
NextReviews ==
  \/ useEffect_load
  \/ call.op \notin YearlyOperations /\ MonthlyOperation
  \/ call.op \notin MonthlyOperations /\ YearlyOperation

SpecReviews == InitReviews /\ [][NextReviews]_vars

\* The store with saveMonthlyReflection and saveYearlyReview only, again one
\* collection per run.
NextSaves ==
  \/ useEffect_load
  \/ /\ call.op \notin YearlyOperations
     /\ \E reflection \in ReflectionInputs, clock \in Clock, ok \in BOOLEAN :
          saveMonthlyReflection(reflection, clock, ok)
  \/ /\ call.op \notin MonthlyOperations
     /\ \E review \in ReviewInputs, clock \in Clock, ok \in BOOLEAN :
          saveYearlyReview(review, clock, ok)

SpecSaves == InitReviews /\ [][NextSaves]_vars

\* The store under file imports only.
NextImport ==
  \/ useEffect_load
  \/ FileImport

SpecImport == Init /\ [][NextImport]_vars

\* The validation functions on records of every shape.
InitValidation ==
  /\ Init
  /\ \A key \in DOMAIN storage : storage[key] = NullItem

NextValidation ==
  \/ \E rawEntries \in RawArrays, draws \in Draws, now \in Nows :
       Evaluate_validateEntries(rawEntries, draws, now)
  \/ \E entry \in RawEntries, draws \in Draws, now \in Nows :
       Evaluate_repairEntry(entry, draws[1], now)
  \/ \E draws \in Draws, now \in Nows :
       Evaluate_repairEntry_again(draws[2], now)

SpecValidation == InitValidation /\ [][NextValidation]_vars

\* The store after its load, holding entries of the streak dates in any
\* order, and the streak computations over them.
InitStreak ==
  /\ entries \in SeqsUpTo(
                  {newEntry([date |-> d, time |-> "08:00", items |-> ItemsPlain]) :
                     d \in {"2025-03-08", "2025-03-09", "2025-03-10", "2025-03-11"}},
                  MaxStreakEntries)
  /\ storage = (STORAGE_KEY :> JSONStringify(entries))
                  @@ (MONTHLY_REFLECTIONS_KEY :> NullItem)
                  @@ (YEARLY_REVIEWS_KEY :> NullItem)
  /\ monthlyReflections = <<>>
  /\ yearlyReviews = <<>>
  /\ isLoading = FALSE
  /\ call = Call("load", "", 0, FALSE)
  /\ writeFailures = 0
  /\ evaluated = NoEvaluation
  /\ component = NoComponent

NextStreak ==
  \/ \E today \in Clocks : Evaluate_calculateStreak(today)
  \/ Evaluate_calculateLongestStreak
  \/ \E zone \in {"UTC", "America/New_York"} : Evaluate_getYearSummary_longestStreak("2025", zone)

SpecStreak == InitStreak /\ [][NextStreak]_vars

\* The store after its load, holding starred entries and reflections in any
\* order, and the top moments derived from them.
InitMoments ==
  /\ entries \in SeqsUpTo({JanEntryStar, FebEntry, DecEntry, LongEntry}, MaxMoments)
  /\ monthlyReflections \in SeqsUpTo(MomentReflections, MaxMoments)
  /\ storage = (STORAGE_KEY :> JSONStringify(entries))
                  @@ (MONTHLY_REFLECTIONS_KEY :> JSONStringify(monthlyReflections))
                  @@ (YEARLY_REVIEWS_KEY :> NullItem)
  /\ yearlyReviews = <<>>
  /\ isLoading = FALSE
  /\ call = Call("load", "", 0, FALSE)
  /\ writeFailures = 0
  /\ evaluated = NoEvaluation
  /\ component = NoComponent

NextMoments ==
  \/ \E year \in {"2024", "2025"} : Evaluate_getYearSummary_topMoments(year)
  \/ \E year \in {"2024", "2025"} : Evaluate_getMonthlyFavoritesForYear(year)
  \/ \E reflection \in MomentReflections : Evaluate_favoriteItems(reflection)

SpecMoments == InitMoments /\ [][NextMoments]_vars

\* The store after its load, holding entries of three months, reflections
\* and a yearly review, and the review prompts evaluated on several days.
InitPrompts ==
  /\ entries \in SeqsUpTo({DecEntry, JanEntry, FebEntry}, MaxPromptRecords)
  /\ monthlyReflections \in
       SeqsUpTo({MonthlyReflection("monthly-2024-12-1738400000000", "2024-12", <<>>, "",
                                   "2025-02-01T08:53:20.000Z"),
                 JanReflection, FebReflection}, MaxPromptRecords)
  /\ yearlyReviews \in {<<>>, <<Review2024>>}
  /\ storage = (STORAGE_KEY :> JSONStringify(entries))
                  @@ (MONTHLY_REFLECTIONS_KEY :> JSONStringify(monthlyReflections))
                  @@ (YEARLY_REVIEWS_KEY :> JSONStringify(yearlyReviews))
  /\ isLoading = FALSE
  /\ call = Call("load", "", 0, FALSE)
  /\ writeFailures = 0
  /\ evaluated = NoEvaluation
  /\ component = NoComponent

PromptDays == {"2024-12-31", "2025-01-01", "2025-01-15", "2025-02-01", "2025-03-08"}

NextPrompts ==
  \/ \E today \in PromptDays,
        dismissedPromptMonth \in {Undefined, "2024-12"},
        dismissedYearBanner \in {Undefined, "2024"},
        reviewVisitedDate \in {Undefined, "2025-01-01"} :
       Evaluate_checkYearlyPrompt(today, dismissedPromptMonth, dismissedYearBanner,
                                  reviewVisitedDate)
  \/ \E today \in PromptDays : Evaluate_getMonthsNeedingReview(today)

SpecPrompts == InitPrompts /\ [][NextPrompts]_vars

\* Writes through safeSetItem over the storage found at start.
NextStorage ==
  \E key \in {STORAGE_KEY, MONTHLY_REFLECTIONS_KEY, YEARLY_REVIEWS_KEY},
     value \in {JSONStringify(<<>>), JSONStringify(<<JanEntry>>)},
     thrown \in Thrown \cup {NoThrow} :
    safeSetItem(key, value, thrown)

SpecStorage == Init /\ [][NextStorage]_vars

\* The Archive page after its load, the monthly review opened over it and
\* closed again, and the page's own entry operations while it is closed.
InitWorkflow ==
  /\ entries = <<FebEntry, JanEntryStar>>
  /\ monthlyReflections = <<JanReflection>>
  /\ yearlyReviews = <<>>
  /\ storage = (STORAGE_KEY :> JSONStringify(entries))
                  @@ (MONTHLY_REFLECTIONS_KEY :> JSONStringify(monthlyReflections))
                  @@ (YEARLY_REVIEWS_KEY :> NullItem)
  /\ isLoading = FALSE
  /\ call = Call("load", "", 0, FALSE)
  /\ writeFailures = 0
  /\ evaluated = NoEvaluation
  /\ component = NoComponent

NextWorkflow ==
  \/ \E month \in {"2025-01", "2025-02"} : MonthlyReview_mount(month)
  \/ \E entryId \in EntryIds, ok \in BOOLEAN : toggleItemStar(entryId, 0, ok)
  \/ \E entryId \in EntryIds : toggleFavorite(entryId, 0)
  \/ \E clock \in Clock, ok \in BOOLEAN : handleSave(clock, ok)
  \/ monthlyReviewUpdated_listener
  \/ MonthlyReview_unmount
  \/ /\ component.kind = "none"
     /\ \/ \E id \in EntryIds, ok \in BOOLEAN :
             updateEntry(id, [date |-> "2025-01-05", time |-> "08:00",
                              items |-> ItemsPlain], ok)
        \/ \E id \in EntryIds, ok \in BOOLEAN : deleteEntry(id, ok)

SpecWorkflow == InitWorkflow /\ [][NextWorkflow]_vars

\* The event dispatched by handleSave is delivered within the same task.
SpecWorkflowFair == SpecWorkflow /\ WF_vars(monthlyReviewUpdated_listener)

\* A month with six starred items, one more than the selection can hold.
ItemsAllStar == <<Item("A", TRUE), Item("B", TRUE), Item("C", TRUE)>>

SelectionEntries ==
  <<newEntry([date |-> "2025-01-15", time |-> "08:00", items |-> ItemsAllStar]),
    newEntry([date |-> "2025-01-05", time |-> "08:00", items |-> ItemsAllStar])>>

InitSelection ==
  /\ entries = SelectionEntries
  /\ monthlyReflections = <<>>
  /\ yearlyReviews = <<>>
  /\ storage = (STORAGE_KEY :> JSONStringify(entries))
                  @@ (MONTHLY_REFLECTIONS_KEY :> NullItem)
                  @@ (YEARLY_REVIEWS_KEY :> NullItem)
  /\ isLoading = FALSE
  /\ call = Call("load", "", 0, FALSE)
  /\ writeFailures = 0
  /\ evaluated = NoEvaluation
  /\ component = NoComponent

NextSelection ==
  \/ MonthlyReview_mount("2025-01")
  \/ \E ok \in BOOLEAN : toggleItemStar("2025-01-05-08:00", 0, ok)
  \/ \E e \in Range(SelectionEntries), itemIndex \in 0..2 : toggleFavorite(e.id, itemIndex)

SpecSelection == InitSelection /\ [][NextSelection]_vars

\* The Archive page after its load, and edits of its entries.
InitEditing ==
  /\ entries \in {<<FebEntry, JanEntry>>, <<JanEntryStar>>}
  /\ monthlyReflections = <<>>
  /\ yearlyReviews = <<>>
  /\ storage = (STORAGE_KEY :> JSONStringify(entries))
                  @@ (MONTHLY_REFLECTIONS_KEY :> NullItem)
                  @@ (YEARLY_REVIEWS_KEY :> NullItem)
  /\ isLoading = FALSE
  /\ call = Call("load", "", 0, FALSE)
  /\ writeFailures = 0
  /\ evaluated = NoEvaluation
  /\ component = NoComponent

NextEditing ==
  \/ \E entryId \in EntryIds : startEditing(entryId)
  \/ handleEditChange(0, "Z")
  \/ toggleEditFavorite(1)
  \/ cancelEditing
  \/ \E ok \in BOOLEAN : saveEdit(ok)

SpecEditing == InitEditing /\ [][NextEditing]_vars

\* The day of the run.
Today == "2025-02-01"

\* The application started on one of its routes, the Layout and the page
\* mounted and loaded, over what storage held.
InitLayout ==
  /\ entries \in {<<>>, <<JanEntry>>, <<FebEntry>>}
  /\ monthlyReflections = <<>>
  /\ yearlyReviews = <<>>
  /\ storage = (STORAGE_KEY :> JSONStringify(entries))
                  @@ (MONTHLY_REFLECTIONS_KEY :> NullItem)
                  @@ (YEARLY_REVIEWS_KEY :> NullItem)
  /\ isLoading = FALSE
  /\ call = Call("load", "", 0, FALSE)
  /\ writeFailures = 0
  /\ evaluated = NoEvaluation
  /\ \E pathname \in navItems : component = Layout_mount(storage, pathname, Today)

NextLayout ==
  \/ \E time \in {"08:00", "21:30"}, ok \in BOOLEAN : handleSubmit(Today, time, ok)
  \/ \E pathname \in navItems : navigate(pathname, Today)
  \/ handleDismissNotification
  \/ /\ component.pathname = "/archive"
     /\ \E id \in EntryIds, ok \in BOOLEAN : deleteEntry(id, ok)

SpecLayout == InitLayout /\ [][NextLayout]_vars

-----------------------------------------------------------------------------
(* Properties *)

\* The collection a key holds: what a load parses from it, [] when the item is
\* missing or does not parse.
Persisted(key) ==
  IF Parses(storage[key]) THEN JSONParse(storage[key]) ELSE <<>>

MutatingOperations ==
  {"saveEntry", "updateEntry", "deleteEntry", "importEntries",
   "importMonthlyReflections", "importYearlyReviews", "saveMonthlyReflection",
   "saveYearlyReview", "updateMonthlyReflection"}

NoDuplicate(s, key(_)) ==
  \A i, j \in 1..Len(s) : i # j => key(s[i]) # key(s[j])

IdOf(r) == r.id
MonthOf(r) == r.month
YearOf(r) == r.year

\* How many elements of s equal x.
Count(s, x) == Cardinality({i \in 1..Len(s) : s[i] = x})

\* C1: when the write of updateEntry, saveEntry, deleteEntry, importEntries,
\* saveMonthlyReflection or saveYearlyReview fails, the three in-memory
\* collections after the call equal the collections before the call.
C1_WriteFailureRollsBack ==
  [][(/\ call'.op \in {"updateEntry", "saveEntry", "deleteEntry", "importEntries",
                       "saveMonthlyReflection", "saveYearlyReview"}
      /\ call'.error # "")
     => /\ entries' = entries
        /\ monthlyReflections' = monthlyReflections
        /\ yearlyReviews' = yearlyReviews]_vars

\* C2: after every completed mutating operation, whether its write succeeded
\* or failed, each in-memory collection equals the collection parsed from its
\* persisted key.
C2_MemoryEqualsStorage ==
  call.op \in MutatingOperations =>
    /\ entries = Persisted(STORAGE_KEY)
    /\ monthlyReflections = Persisted(MONTHLY_REFLECTIONS_KEY)
    /\ yearlyReviews = Persisted(YEARLY_REVIEWS_KEY)

\* C3: no two entries of the in-memory entries collection have the same id.
C3_UniqueEntryIds == NoDuplicate(entries, IdOf)

\* C4: every entry of the in-memory entries collection satisfies the Entry
\* validity rules (validateEntry).
C4_EntriesAreValid == \A e \in Range(entries) : validateEntry(e).valid

C6_RejectedImportChangesNothing ==
  [][\A data \in Documents, okEntries \in BOOLEAN, okMonthly \in BOOLEAN,
        okYearly \in BOOLEAN :
       (/\ \/ ~data.entriesIsArray
           \/ VersionMajor(data.version) > CurrentMajor
        /\ handleFileChange(data, okEntries, okMonthly, okYearly))
       => UNCHANGED <<entries, monthlyReflections, yearlyReviews, storage>>]_vars

\* C6 witness: a backup of a newer version was rejected by a store that holds
\* entries.
C6_Witness ==
  /\ call.op = "handleFileChange"
  /\ call.error = "This backup is from a newer version"
  /\ Len(entries) > 0

\* C7: under saveMonthlyReflection and saveYearlyReview calls, starting from
\* collections without duplicates, monthlyReflections holds at most one record
\* per month and yearlyReviews at most one record per year.
C7_SavesKeepKeysUnique ==
  /\ NoDuplicate(monthlyReflections, MonthOf)
  /\ NoDuplicate(yearlyReviews, YearOf)

\* C7 witness: a review was saved for a month that already had a record, the
\* collection holding records of two months.
C7_Witness ==
  /\ call.op = "saveMonthlyReflection"
  /\ call.hit
  /\ Len(monthlyReflections) = 2

\* C8: monthlyReflections holds at most one record per month in every
\* reachable state, also after importMonthlyReflections and
\* updateMonthlyReflection.
C8_OneReflectionPerMonth == NoDuplicate(monthlyReflections, MonthOf)

\* C9: saveMonthlyReflection for a month that has a record keeps the record's
\* id, createdAt and position, replaces its selectedFavorites and
\* reflectionText and leaves every other record unchanged; for a month without
\* a record it appends exactly one record.  saveYearlyReview does the same
\* keyed on year.
C9_SaveOverwritesInPlaceOrAppends ==
  [][/\ call'.op = "saveMonthlyReflection" =>
          \A reflection \in ReflectionInputs, clock \in Clock, ok \in BOOLEAN :
            (call'.error = WriteError(ok) /\ saveMonthlyReflection(reflection, clock, ok)) =>
            LET rs == monthlyReflections
                after == monthlyReflections'
                at == {i \in 1..Len(rs) : rs[i].month = reflection.month}
            IN  IF at # {}
                  THEN LET i == CHOOSE i \in at : \A j \in at : i <= j
                       IN  /\ Len(after) = Len(rs)
                           /\ after[i].id = rs[i].id
                           /\ after[i].createdAt = rs[i].createdAt
                           /\ after[i].month = reflection.month
                           /\ after[i].selectedFavorites = reflection.selectedFavorites
                           /\ after[i].reflectionText = reflection.reflectionText
                           /\ \A j \in 1..Len(rs) : j # i => after[j] = rs[j]
                  ELSE /\ Len(after) = Len(rs) + 1
                       /\ SubSeq(after, 1, Len(rs)) = rs
                       /\ after[Len(after)].month = reflection.month
                       /\ after[Len(after)].selectedFavorites = reflection.selectedFavorites
                       /\ after[Len(after)].reflectionText = reflection.reflectionText
     /\ call'.op = "saveYearlyReview" =>
          \A review \in ReviewInputs, clock \in Clock, ok \in BOOLEAN :
            (call'.error = WriteError(ok) /\ saveYearlyReview(review, clock, ok)) =>
            LET ys == yearlyReviews
                after == yearlyReviews'
                at == {i \in 1..Len(ys) : ys[i].year = review.year}
            IN  IF at # {}
                  THEN LET i == CHOOSE i \in at : \A j \in at : i <= j
                       IN  /\ Len(after) = Len(ys)
                           /\ after[i].id = ys[i].id
                           /\ after[i].createdAt = ys[i].createdAt
                           /\ after[i].year = review.year
                           /\ after[i].reflectionText = review.reflectionText
                           /\ \A j \in 1..Len(ys) : j # i => after[j] = ys[j]
                  ELSE /\ Len(after) = Len(ys) + 1
                       /\ SubSeq(after, 1, Len(ys)) = ys
                       /\ after[Len(after)].year = review.year
                       /\ after[Len(after)].reflectionText = review.reflectionText]_vars

\* C9 witness: a save for a month that had a record left a record that still
\* has the id and createdAt it was created with and holds the new content.
C9_Witness ==
  /\ call.op = "saveMonthlyReflection"
  /\ call.hit
  /\ \E r \in Range(monthlyReflections) :
       /\ r.id = JanReflection.id
       /\ r.createdAt = JanReflection.createdAt
       /\ r.reflectionText = ""

\* C10: importMonthlyReflections appends exactly the imported records whose
\* month is not in the collection, in their order, changes no held record, and
\* returns the number of records appended; importYearlyReviews does the same
\* keyed on year.
C10_ImportAppendsNewKeysOnly ==
  [][/\ call'.op = "importMonthlyReflections" =>
          \A importedReflections \in ImportedReflections, ok \in BOOLEAN :
            (call'.error = WriteError(ok) /\ importMonthlyReflections(importedReflections, ok)) =>
            LET rs == monthlyReflections
                after == monthlyReflections'
                held == {r.month : r \in Range(rs)}
                added == {k \in 1..Len(importedReflections) :
                            importedReflections[k].month \notin held}
            IN  /\ Len(after) = Len(rs) + Cardinality(added)
                /\ SubSeq(after, 1, Len(rs)) = rs
                /\ \A k \in added :
                     after[Len(rs) + Cardinality({j \in added : j <= k})]
                       = importedReflections[k]
                /\ ok => call'.ret = Cardinality(added)
     /\ call'.op = "importYearlyReviews" =>
          \A importedReviews \in ImportedReviews, ok \in BOOLEAN :
            (call'.error = WriteError(ok) /\ importYearlyReviews(importedReviews, ok)) =>
            LET ys == yearlyReviews
                after == yearlyReviews'
                held == {r.year : r \in Range(ys)}
                added == {k \in 1..Len(importedReviews) :
                            importedReviews[k].year \notin held}
            IN  /\ Len(after) = Len(ys) + Cardinality(added)
                /\ SubSeq(after, 1, Len(ys)) = ys
                /\ \A k \in added :
                     after[Len(ys) + Cardinality({j \in added : j <= k})]
                       = importedReviews[k]
                /\ ok => call'.ret = Cardinality(added)]_vars

\* C10 witness: an import returned 1 for a document that held a record of a
\* month already in the collection and a record of a new month.
C10_Witness ==
  /\ call.op = "importMonthlyReflections"
  /\ call.error = ""
  /\ call.hit
  /\ call.ret = 1

\* C11: saveEntry puts a new entry with id <date>-<time> at the front of the
\* entries collection and leaves the entries held before unchanged and in the
\* same order behind it; when the entry's date is the current local date,
\* hasTodayEntry() is true afterwards.
C11_SaveEntryPrepends ==
  [][call'.op = "saveEntry" =>
       \A entry \in EntryInputs, ok \in BOOLEAN :
         (call'.error = WriteError(ok) /\ saveEntry(entry, ok)) =>
           /\ Len(entries') = Len(entries) + 1
           /\ entries'[1].id = Str(entry.date) \o "-" \o Str(entry.time)
           /\ entries'[1].date = entry.date
           /\ entries'[1].time = entry.time
           /\ entries'[1].items = entry.items
           /\ Tail(entries') = entries
           /\ \A today \in (Dates \cup {"2025-02-02"}) :
                today = entry.date => hasTodayEntry(entries', today)]_vars

\* C11 witness: an entry was saved in front of an entry held before.
C11_Witness ==
  /\ call.op = "saveEntry"
  /\ Len(entries) = 2
  /\ entries[1].id = "2025-02-01-08:00"
  /\ entries[2].id = "2025-01-05-08:00"

\* C12: updateEntry changes only the entries whose id is the given id, the
\* replaced entry keeps that id and takes the given fields, the length and the
\* order of the collection are unchanged, and when no entry has the id the
\* collection is unchanged.
C12_UpdateEntryFrame ==
  [][call'.op = "updateEntry" =>
       \A id \in EntryIds, updatedEntry \in EntryInputs, ok \in BOOLEAN :
         (call'.error = WriteError(ok) /\ updateEntry(id, updatedEntry, ok)) =>
           /\ Len(entries') = Len(entries)
           /\ \A i \in 1..Len(entries) :
                IF entries[i].id = id
                  THEN /\ entries'[i].id = id
                       /\ entries'[i].date = updatedEntry.date
                       /\ entries'[i].time = updatedEntry.time
                       /\ entries'[i].items = updatedEntry.items
                  ELSE entries'[i] = entries[i]
           /\ (\A e \in Range(entries) : e.id # id) => entries' = entries]_vars

\* C12 witness: an update gave the second of two entries a new date while the
\* entry kept its id and the first entry stayed as it was.
C12_Witness ==
  /\ call.op = "updateEntry"
  /\ call.hit
  /\ Len(entries) = 2
  /\ entries[1].id = "2025-02-01-08:00"
  /\ entries[1].date = "2025-02-01"
  /\ entries[2].id = "2025-01-05-08:00"
  /\ entries[2].date = "2025-02-01"

\* What validateEntries does with a record: it is valid, or it is repaired
\* into a valid entry, or it is discarded.
IsRepairable(entry) ==
  /\ ~validateEntry(entry).valid
  /\ \E draws \in Draws, now \in Nows :
       LET repaired == repairEntry(entry, draws[1], now)
       IN  repaired # Null /\ validateEntry(repaired).valid

\* C13: every record in the `valid` output of validateEntries satisfies
\* validateEntry, for any input array.
C13_ValidOutputIsValid ==
  evaluated.fn = "validateEntries" =>
    \A k \in 1..Len(evaluated.returned.valid) :
      validateEntry(evaluated.returned.valid[k]).valid

\* C13 witness: a repaired entry was accepted, and a record whose repair does
\* not pass validateEntry was discarded.
C13_Witness ==
  /\ evaluated.fn = "validateEntries"
  /\ evaluated.given = <<ShortEntry, Entry("e1", "Jan 5", "08:00", ItemsPlain)>>
  /\ Len(evaluated.returned.valid) = 1
  /\ Len(evaluated.returned.errors) = 2

\* C14: for an input array of n records, valid.length is n minus the number
\* of invalid records that cannot be repaired, errors.length is the number of
\* records that failed the first validation, and the records valid on input
\* are in `valid` unchanged and in input order.
C14_ValidationCounts ==
  evaluated.fn = "validateEntries" =>
    LET given == evaluated.given
        valid == evaluated.returned.valid
        errors == evaluated.returned.errors
        failed == {i \in 1..Len(given) : ~validateEntry(given[i]).valid}
        discarded == {i \in failed : ~IsRepairable(given[i])}
        kept == (1..Len(given)) \ discarded
    IN  /\ Len(valid) = Len(given) - Cardinality(discarded)
        /\ Len(errors) = Cardinality(failed)
        /\ \A i \in kept \ failed :
             valid[Cardinality({j \in kept : j <= i})] = given[i]

\* C14 witness: of two records the first was discarded and the second, valid
\* on input, was returned as it is.
C14_Witness ==
  /\ evaluated.fn = "validateEntries"
  /\ evaluated.given = <<Null, FebEntry>>
  /\ evaluated.returned.valid = <<FebEntry>>
  /\ Len(evaluated.returned.errors) = 1

DaysWithEntry == {DateTime(e.date) : e \in Range(entries)}

RECURSIVE RunBackFrom(_)
\* The number of consecutive days with an entry, counted backward from a day.
RunBackFrom(day) ==
  IF day \in DaysWithEntry THEN 1 + RunBackFrom(day - 1) ELSE 0

\* The length of the longest run of consecutive days that have an entry.
LongestRun ==
  IF DaysWithEntry = {} THEN 0
  ELSE CHOOSE n \in 1..Cardinality(DaysWithEntry) :
         /\ \E day \in DaysWithEntry : RunBackFrom(day) = n
         /\ \A day \in DaysWithEntry : RunBackFrom(day) <= n

\* C16: the current streak is 0 when neither today nor yesterday has an
\* entry; otherwise it is the number of consecutive days with an entry,
\* counted backward from today if today has an entry, else from yesterday.
C16_CurrentStreak ==
  evaluated.fn = "calculateStreak" =>
    LET today == DateTime(evaluated.given.date)
    IN  evaluated.returned =
          IF today \in DaysWithEntry THEN RunBackFrom(today)
          ELSE RunBackFrom(today - 1)

\* C17: the longest streak is the length of the longest run of consecutive
\* calendar days that each have at least one entry, also when several entries
\* have the same date.
C17_LongestStreak ==
  evaluated.fn \in {"calculateLongestStreak", "getYearSummary.longestStreak"} =>
    evaluated.returned = LongestRun

\* The reflections of the year the last evaluation was given.
ReflectionsOfYear ==
  Filter(monthlyReflections,
         {r \in Range(monthlyReflections) : startsWith(r.month, evaluated.given)})

\* C18: the top moments of a year are its starred items when the year has no
\* monthly reflection; as soon as the year has a monthly reflection with
\* selected favorites they are the list derived from the monthly reflections
\* alone, never the starred items and never a merge of the two.
C18_TopMomentsSource ==
  evaluated.fn = "getYearSummary.topMoments" =>
    /\ ReflectionsOfYear = <<>> =>
         evaluated.returned = getYearStarredItems(entries, evaluated.given)
    /\ (\E r \in Range(ReflectionsOfYear) : r.selectedFavorites # <<>>) =>
         evaluated.returned =
           getMonthlyFavoritesForYear(entries, monthlyReflections, evaluated.given)

\* C19: the top moments are in ascending order of entry date, whatever the
\* order of the entries and of the monthly reflections.
C19_TopMomentsSorted ==
  evaluated.fn = "getYearSummary.topMoments" =>
    \A i, j \in 1..Len(evaluated.returned) :
      i < j => DateTime(evaluated.returned[i].date) <= DateTime(evaluated.returned[j].date)

RECURSIVE Concat(_)
\* The concatenation of a sequence of sequences.
Concat(ss) == IF ss = <<>> THEN <<>> ELSE Head(ss) \o Concat(Tail(ss))

\* The keys selected in the reflections of the year, in their order.
SelectedOfYear ==
  Concat([n \in 1..Len(ReflectionsOfYear) |-> ReflectionsOfYear[n].selectedFavorites])

\* What a key stands for: the item of an entry of the store when the key is
\* the entry's id, "-" and an index from 0 to 2, and nothing otherwise.
KeyStandsFor(key) ==
  {[date |-> entries[x[1]].date, text |-> entries[x[1]].items[x[2] + 1].text] :
     x \in {y \in (1..Len(entries)) \X (0..2) :
              key = favoriteKey(entries[y[1]].id, y[2])}}

RECURSIVE KeysStandFor(_)
\* The items a sequence of keys stands for, in the order of the keys.
KeysStandFor(keys) ==
  IF keys = <<>> THEN <<>>
  ELSE (IF KeyStandsFor(Head(keys)) = {} THEN <<>>
        ELSE <<CHOOSE item \in KeyStandsFor(Head(keys)) : TRUE>>)
         \o KeysStandFor(Tail(keys))

\* C20: a key built from an entry's id, "-" and an item index from 0 to 2
\* resolves to that item of that entry, also when the id holds a "-"; a key
\* with no "-", with an index that is no number, with the id of no entry or
\* with an index outside 0..2 contributes nothing.
C20_FavoriteKeyResolution ==
  evaluated.fn \in {"favoriteItems", "getMonthlyFavoritesForYear"} =>
    LET keys == IF evaluated.fn = "favoriteItems" THEN evaluated.given.selectedFavorites
                ELSE SelectedOfYear
    IN  [n \in 1..Len(evaluated.returned) |->
           [date |-> evaluated.returned[n].date, text |-> evaluated.returned[n].text]]
          = KeysStandFor(keys)

\* C21: the yearly review prompt is eligible in January only: on January 1st
\* only when the reflection of the December before exists, and from January
\* 2nd to 31st when that reflection exists or the December prompt was
\* dismissed, for a year that has entries and no review yet.
C21_YearlyPromptEligibility ==
  evaluated.fn = "checkYearlyPrompt" =>
    LET today == DateFields(evaluated.given.today)
        december == previousYear(evaluated.given.today) \o "-12"
        decemberReviewed == \E r \in Range(monthlyReflections) : r.month = december
        decemberDismissed == evaluated.given.dismissedPromptMonth = december
        due == /\ Len(getYearEntries(entries, previousYear(evaluated.given.today))) > 0
               /\ ~\E r \in Range(yearlyReviews) : r.year = previousYear(evaluated.given.today)
    IN  /\ evaluated.returned.shouldShow => today.MM = "01"
        /\ (today.MM = "01" /\ today.dd = "01" /\ evaluated.returned.shouldShow)
             => decemberReviewed
        /\ (today.MM = "01" /\ today.dd # "01" /\ due
              /\ (decemberReviewed \/ decemberDismissed))
             => evaluated.returned.shouldShow

\* C22: getMonthsNeedingReview returns exactly the months before the current
\* month that have an entry and no monthly reflection, each once, the most
\* recent first; the current month and later months are never among them.
C22_MonthsNeedingReview ==
  evaluated.fn = "getMonthsNeedingReview" =>
    LET currentMonth == formatMonth(evaluated.given)
        months == evaluated.returned
    IN  /\ Range(months) =
             {m \in {formatMonth(e.date) : e \in Range(entries)} :
                /\ MonthRank(m) < MonthRank(currentMonth)
                /\ \A r \in Range(monthlyReflections) : r.month # m}
        /\ \A i, j \in 1..Len(months) : i < j => MonthRank(months[i]) > MonthRank(months[j])

\* Entries of 2025-01 and 2025-02 with no reflection, on 2025-03-08: both
\* months are returned, February first.
C22_Witness ==
  /\ evaluated.fn = "getMonthsNeedingReview"
  /\ evaluated.given = "2025-03-08"
  /\ entries = <<JanEntry, FebEntry>>
  /\ evaluated.returned = <<"2025-02", "2025-01">>

\* C24: safeSetItem never throws, whatever the write throws; it returns
\* success exactly when the write did not throw, and otherwise the type
\* quota_exceeded for a quota error (name QuotaExceededError or code 22),
\* disabled for a security error (name SecurityError or code 18), and unknown
\* for anything else.
C24_SafeSetItemNeverThrows ==
  evaluated.fn = "safeSetItem" =>
    LET thrown == evaluated.given.thrown
        result == evaluated.returned
    IN  /\ result.threw = ""
        /\ result.success <=> thrown = NoThrow
        /\ thrown # NoThrow =>
             result.type =
               IF nameIs(thrown, "QuotaExceededError") \/ codeIs(thrown, 22)
                 THEN "quota_exceeded"
               ELSE IF nameIs(thrown, "SecurityError") \/ codeIs(thrown, 18)
                 THEN "disabled"
               ELSE "unknown"

\* The notification published by handleSave has not been delivered yet.
NotificationInFlight ==
  component.kind = "MonthlyReview" /\ component.notification = "monthlyReviewUpdated"

\* Every mounted instance holds the persisted reflections and reviews.
InstancesHoldPersisted ==
  /\ monthlyReflections = Persisted(MONTHLY_REFLECTIONS_KEY)
  /\ yearlyReviews = Persisted(YEARLY_REVIEWS_KEY)
  /\ component.kind = "MonthlyReview" =>
       /\ component.instance.monthlyReflections = Persisted(MONTHLY_REFLECTIONS_KEY)
       /\ component.instance.yearlyReviews = Persisted(YEARLY_REVIEWS_KEY)

\* C25: while the notification of a saved monthly review is in flight, the
\* saved record is in storage; and its delivery leads to every mounted
\* instance, the page's and the component's, holding monthlyReflections and
\* yearlyReviews equal to the persisted collections.
C25_ReloadAfterSave ==
  /\ [](NotificationInFlight =>
          \E r \in Range(Persisted(MONTHLY_REFLECTIONS_KEY)) :
            /\ r.month = component.month
            /\ r.selectedFavorites = component.selectedFavorites
            /\ r.reflectionText = Trim(component.reflectionText))
  /\ (NotificationInFlight ~> InstancesHoldPersisted)

\* A review of February was saved by the component while the page held no
\* reflection of February; after the delivery the page holds it.
C25_Witness ==
  /\ call.op = "reloadMonthlyReflections"
  /\ component.kind = "MonthlyReview"
  /\ component.month = "2025-02"
  /\ \E r \in Range(monthlyReflections) :
       r.month = "2025-02" /\ r.selectedFavorites = component.selectedFavorites
  /\ InstancesHoldPersisted

\* C26: when the page's instance performs saveEntry, updateEntry or
\* deleteEntry and its write goes through, every persisted entry but the one
\* it acted on is still persisted as it was, whatever the component's
\* instance persisted before; no write has failed.
C26_NoLostUpdate ==
  [][(/\ call'.op \in {"saveEntry", "updateEntry", "deleteEntry"}
      /\ writeFailures' = 0)
     => \E id \in EntryIds :
          \A e \in Range(Persisted(STORAGE_KEY)) :
            e.id # id => e \in Range(Persisted(STORAGE_KEY)')]_vars

\* C28: the monthly review mounted for a month with a saved reflection
\* starts with the saved record's selectedFavorites and reflectionText.
C28_ReviewStartsFromSaved ==
  [][(component.kind = "none" /\ component'.kind = "MonthlyReview")
     => LET saved == getMonthlyReflection(Persisted(MONTHLY_REFLECTIONS_KEY),
                                          component'.month)
        IN  saved # Null =>
              /\ component'.selectedFavorites = saved.selectedFavorites
              /\ component'.reflectionText = saved.reflectionText]_vars

\* The key names an entry of the collection dated in the month whose item at
\* the key's index is marked favorite.
KeyResolves(key, month, es) ==
  \E e \in Range(es), itemIndex \in 0..2 :
    /\ favoriteKey(e.id, itemIndex) = key
    /\ formatMonth(e.date) = month
    /\ hasItem(e.items, itemIndex)
    /\ e.items[itemIndex + 1].favorite

\* C30: every key of every persisted monthly reflection resolves to a
\* persisted entry dated in the reflection's month whose item at that index
\* is marked favorite.
C30_SavedFavoritesResolve ==
  \A r \in Range(Persisted(MONTHLY_REFLECTIONS_KEY)) :
    \A key \in Range(r.selectedFavorites) :
      KeyResolves(key, r.month, Persisted(STORAGE_KEY))

\* C23: in the monthly review the pending selectedFavorites holds at most 5
\* keys and no key twice; toggleFavorite of an unselected key while 5 are
\* selected leaves the selection as it was; and after toggleItemStar has
\* unstarred an item, its key is not in the pending selection.
C23_PendingSelection ==
  [][component'.kind = "MonthlyReview" =>
       LET selected == component'.selectedFavorites
       IN  /\ Len(selected) <= MaxFavorites
           /\ \A i, j \in 1..Len(selected) : selected[i] = selected[j] => i = j
           /\ (/\ call'.op = "toggleFavorite"
               /\ ~call'.hit
               /\ Len(component.selectedFavorites) = MaxFavorites)
              => selected = component.selectedFavorites
           /\ call'.op = "toggleItemStar" =>
                \A i \in 1..Len(component.instance.entries), itemIndex \in 0..2 :
                  (/\ component.instance.entries[i].items[itemIndex + 1].favorite
                   /\ \E e \in Range(component'.instance.entries) :
                        /\ e.id = component.instance.entries[i].id
                        /\ ~e.items[itemIndex + 1].favorite)
                  => favoriteKey(component.instance.entries[i].id, itemIndex)
                       \notin Range(selected)]_vars

\* C29: when an edit started in the Archive is cancelled, the entries in
\* memory are what they were when the edit started and, no write having
\* failed, what storage holds.
C29_CancelRestoresEntries ==
  [][(component.kind = "Archive" /\ call'.op = "cancelEditing")
     => /\ entries' = component.before
        /\ writeFailures' = 0 => entries' = Persisted(STORAGE_KEY)']_vars

\* C27: the layout's notification is not shown while storage holds an entry
\* dated today.
C27_NoReminderOnceSaved ==
  (component.kind = "Layout" /\ component.showNotification)
    => ~hasTodayEntry(Persisted(STORAGE_KEY), Today)

====
